---- MODULE Spec2Model ----
(***************************************************************************)
(* Model of the operation orchestrator of cosmic-store (src/main.rs): the  *)
(* App state that App::update mutates, one action per Message handled by   *)
(* App::update, and the installed/updates enumerations that the handlers   *)
(* start as background commands.                                           *)
(*                                                                         *)
(* App::update is the single entry point of the control loop; the runtime  *)
(* hands it one Message at a time.  The operation events (PendingProgress, *)
(* PendingComplete, PendingError) are taken as inputs of App::update for   *)
(* every id that was ever allocated, so events for ids that already left   *)
(* the pending table are part of the model.                                *)
(***************************************************************************)
EXTENDS Bags, FiniteSets, Integers, Naturals, Sequences, TLC

(***************************************************************************)
(* Bounds of the model.                                                    *)
(***************************************************************************)
\* Number of operation ids the model allocates (pending_operation_id is a u64).
MaxOps == 2
\* Number of enumerations of one kind that may be in flight at once.
MaxScans == 2
\* Progress fractions are modelled as k / ProgressSteps, k in 0..ProgressSteps.
ProgressSteps == 1

(***************************************************************************)
(* Data of the model.                                                      *)
(***************************************************************************)
\* enum OperationKind (mod operation), used at main.rs:1270,1403,1462,1474
OperationKinds == {"Install", "Uninstall", "Update"}
\* Names of the backends of the compiled-in backend set, in iteration order.
BackendOrder == <<"flatpak", "packagekit">>
BackendNames == {BackendOrder[i] : i \in 1..Len(BackendOrder)}
\* Package identifiers and the application name of each.
PackageIds == {"foo"}
\* AppInfo::source_id
SourceIds == {"src"}
\* Error strings a failing operation reports.
ErrorMessages == {"permission denied", "backend not found"}
ProgressValues == 0..ProgressSteps

\* struct Operation { kind, backend_name, package_id, info }; of info only
\* source_id is read by the orchestrator.
Operations ==
    [kind : OperationKinds, backend_name : BackendNames,
     package_id : PackageIds, source_id : SourceIds]

\* The operations the model requests with Message::Operation; Update
\* operations are requested with Message::UpdateAll.
OperationInputs ==
    {[kind |-> "Install", backend_name |-> "flatpak",
      package_id |-> "foo", source_id |-> "src"]}

\* struct Package { id, info, .. } as far as the orchestrator reads it.
Package(id) == [id |-> id, name |-> id, source_id |-> "src"]

\* Option<T>: None is the empty sequence, Some(x) the one-element sequence.
None == <<>>
Some(x) == <<x>>
IsSome(o) == Len(o) = 1
Unwrap(o) == o[1]

VARIABLES
    backends,               \* App::backends: names of the loaded backends
    backends_loading,       \* the update_backends command of App::init is in flight
    dialog_pages,           \* App::dialog_pages: VecDeque of FailedOperation(id)
    pending_operation_id,   \* App::pending_operation_id
    pending_operations,     \* App::pending_operations: id -> (Operation, progress)
    failed_operations,      \* App::failed_operations: id -> (Operation, String)
    installed,              \* App::installed: Option<Vec<(backend, Package)>>
    updates,                \* App::updates
    waiting_installed,      \* App::waiting_installed: Vec<(backend, source, package)>
    waiting_updates,        \* App::waiting_updates
    installed_scans,        \* update_installed commands in flight, oldest first
    updates_scans,          \* update_updates commands in flight, oldest first
    installed_stale,        \* history: how many of installed_scans were started
                            \* before the newest waiting_installed entry was pushed
    updates_stale,          \* history: the same for updates_scans and waiting_updates
    allocated,              \* history: every id App::operation ever handed out
    failures,               \* history: (id, message) of every operation that
                            \* failed, in the order the failures were processed
    dismissed,              \* history: number of failure dialogs dismissed
    last,                   \* history: the message App::update processed last
    tasks,                  \* the subscriptions the runtime keeps alive: id ->
                            \* the background task of that id and its channel
    created,                \* history: id -> number of tasks ever started for it
    invocations,            \* history: id -> number of calls of Backend::operation
    delivered,              \* history: id -> the kinds of the events of that id
                            \* App::update processed, in order
    scan_backends,          \* generic_search: the `backends` argument
    scan_catalog,           \* generic_search: the info caches of each backend,
                            \* each the set of its ids
    scan_score,             \* generic_search: the `filter_map` argument, id -> Option<i64>
    scan_results,           \* generic_search: the returned Vec<SearchResult>
    scan_request,           \* the category or explore page of the call, if any
    score_query,            \* search closure: the text the matcher was built from
    score_info,             \* search closure: the AppInfo argument
    score_result,           \* search closure: the returned Option<i64>
    rank_hits,              \* search: the hits of a scan, as collected
    rank_results,           \* search: the hits with their weights, sorted
    search_active,          \* App::search_active
    search_input,           \* App::search_input
    search_results,         \* App::search_results: Option<(String, Vec<SearchResult>)>
    search_scans,           \* the commands App::search started, still in flight
    category_results,       \* App::category_results
    category_scans,         \* the commands App::category started, still in flight
    explore_results,        \* App::explore_results
    explore_scans,          \* the commands App::explore_results started, in flight
    explore_page_opt,       \* App::explore_page_opt
    selected_opt,           \* App::selected_opt: the (backend, id) selected
    nav_page,               \* the active page of App::nav_model
    show_context            \* core.window.show_context

vars == <<backends, backends_loading, dialog_pages, pending_operation_id,
          pending_operations, failed_operations, installed, updates,
          waiting_installed, waiting_updates, installed_scans, updates_scans,
          installed_stale, updates_stale, allocated, failures, dismissed,
          last, tasks, created, invocations, delivered,
          scan_backends, scan_catalog, scan_score, scan_results, scan_request,
          score_query, score_info, score_result, rank_hits, rank_results,
          search_active, search_input, search_results, search_scans,
          category_results, category_scans, explore_results, explore_scans,
          explore_page_opt, selected_opt, nav_page, show_context>>

tables == <<pending_operation_id, pending_operations, failed_operations>>
waiting == <<waiting_installed, waiting_updates>>
scans == <<installed_scans, updates_scans, installed_stale, updates_stale>>
lists == <<installed, updates>>
dialog_history == <<failures, dismissed>>
task_vars == <<tasks, created, invocations, delivered>>
app_state == <<backends, backends_loading, dialog_pages, tables, lists, waiting,
               scans, allocated, dialog_history>>
ui_vars == <<search_active, search_input, search_results, search_scans,
             category_results, category_scans, explore_page_opt, selected_opt,
             nav_page, show_context>>
app_vars == <<app_state, last, ui_vars>>
score_vars == <<score_query, score_info, score_result>>
rank_vars == <<rank_hits, rank_results>>
explore_vars == <<explore_results, explore_scans>>
call_vars == <<scan_backends, scan_catalog, scan_score, scan_results,
               scan_request, score_vars, rank_vars>>
scan_vars == <<call_vars, explore_vars>>

\* The record kept in `last`: the Message variant, and whether the handler
\* found what it looked up (the pending id, a dialog, an updates list); for
\* an enumeration result, whether the enumeration was started after the
\* newest awaiting-refresh entry was pushed.
Msg(type, hit) == [type |-> type, hit |-> hit]

(***************************************************************************)
(* Collections: BTreeMap, Vec and VecDeque operations used by App::update. *)
(***************************************************************************)
EmptyTable == [i \in {} |-> i]

\* BTreeMap::get / contains: Some(entry) when the key is present.
get(tbl, id) == IF id \in DOMAIN tbl THEN Some(tbl[id]) ELSE None

\* BTreeMap::remove leaves the table without the key.
remove_keep(tbl, id) == tbl
remove(tbl, id) == [i \in DOMAIN tbl \ {id} |-> tbl[i]]

\* BTreeMap::insert replaces the entry of an existing key.
insert(tbl, id, entry) == (id :> entry) @@ tbl

\* VecDeque::push_back, Vec::push
push_front(q, x) == <<x>> \o q
push_back(q, x) == Append(q, x)

\* VecDeque::pop_front: nothing happens on an empty queue.
pop_back(q) == IF q = <<>> THEN q ELSE SubSeq(q, 1, Len(q) - 1)
pop_front(q) == IF q = <<>> THEN q ELSE Tail(q)

\* Vec::clear
clear_keep(list) == list
clear(list) == <<>>

(***************************************************************************)
(* App::operation (main.rs:527-531).  The state it touches is passed as a  *)
(* record so that UpdateAll can call it once per entry of the updates      *)
(* list: next is pending_operation_id, pending is pending_operations and   *)
(* log is the history of the ids handed out.                               *)
(***************************************************************************)
next_id_stuck(id) == id
next_id(id) == id + 1

pending_entry(op) == [op |-> op, progress |-> 0]

insert_pending_merge(tbl, id, op) ==
    IF \E i \in DOMAIN tbl : tbl[i].op = op THEN tbl
    ELSE insert(tbl, id, pending_entry(op))
insert_pending(tbl, id, op) == insert(tbl, id, pending_entry(op))

operation(st, op) ==
    [next    |-> next_id(st.next),
     pending |-> insert_pending(st.pending, st.next, op),
     log     |-> Append(st.log, st.next)]

RECURSIVE operation_all(_, _)
operation_all(st, ops) ==
    IF ops = <<>> THEN st
    ELSE operation_all(operation(st, Head(ops)), Tail(ops))

\* The App fields App::operation works on, as the record it is passed.
OperationState ==
    [next |-> pending_operation_id, pending |-> pending_operations,
     log |-> allocated]

\* The element pushed on waiting_installed and waiting_updates
\* (main.rs:1057-1066).
waiting_entry_swapped(op) == <<op.backend_name, op.package_id, op.source_id>>
waiting_entry(op) == <<op.backend_name, op.source_id, op.package_id>>

\* The value stored in failed_operations (main.rs:1074).
failed_entry(op, err) == [op |-> op, err |-> err]

\* dialog_pages after PendingError (main.rs:1073-1076): the dialog is pushed
\* inside the `if let`, i.e. only when the id was pending.
error_dialog_pages_twice(q, id, hit) ==
    IF hit THEN push_back(push_back(q, id), id) ELSE q
error_dialog_pages_always(q, id, hit) == push_back(q, id)
error_dialog_pages(q, id, hit) == IF hit THEN push_back(q, id) ELSE q

\* failed_operations after PendingError (main.rs:1073-1074): the entry is
\* inserted inside the `if let`; found is the result of the pending lookup.
error_failed_operations_overwrite(failed, id, found, err) ==
    IF IsSome(found) THEN insert(failed, id, failed_entry(Unwrap(found).op, err))
    ELSE IF id \in DOMAIN failed THEN [failed EXCEPT ![id].err = err]
    ELSE failed
error_failed_operations(failed, id, found, err) ==
    IF IsSome(found) THEN insert(failed, id, failed_entry(Unwrap(found).op, err))
    ELSE failed

\* App::dialog (main.rs:1314-1337): the dialog on display is the one of the
\* front page, with the operation and the message the failed table holds for
\* its id; no dialog when the queue is empty or the id is not in the table.
dialog_back(pages, failed) ==
    IF pages = <<>> THEN None
    ELSE LET id == pages[Len(pages)]
         IN  IF id \in DOMAIN failed
             THEN Some([id |-> id, operation |-> failed[id].op,
                        err |-> failed[id].err])
             ELSE None
dialog(pages, failed) ==
    IF pages = <<>> THEN None
    ELSE LET id == Head(pages)
         IN  IF id \in DOMAIN failed
             THEN Some([id |-> id, operation |-> failed[id].op,
                        err |-> failed[id].err])
             ELSE None

\* pending_operations after PendingProgress (main.rs:1079-1081).
set_progress_done(tbl, id, p) ==
    IF IsSome(get(tbl, id)) /\ p = ProgressSteps THEN remove(tbl, id)
    ELSE IF IsSome(get(tbl, id)) THEN [tbl EXCEPT ![id].progress = p]
    ELSE tbl
set_progress_all(tbl, id, p) ==
    IF IsSome(get(tbl, id)) THEN [i \in DOMAIN tbl |-> [tbl[i] EXCEPT !.progress = p]]
    ELSE tbl
set_progress(tbl, id, p) ==
    IF IsSome(get(tbl, id)) THEN [tbl EXCEPT ![id].progress = p] ELSE tbl

(***************************************************************************)
(* Enumerations: App::update_installed and App::update_updates             *)
(* (main.rs:749-827).  A command in flight is the record of the backend    *)
(* set it cloned when it was started.  The commands in flight are kept in  *)
(* the order they were started; their results arrive in any order.         *)
(***************************************************************************)
Scan(bs) == [backends |-> bs]

\* const SYSTEM_ID (main.rs:55)
SYSTEM_ID == "__SYSTEM__"

\* Application names as sequences of letter numbers (a = 1 .. z = 26).
NameOf(id) ==
    CASE id = "ba" -> <<2, 1>>
      [] id = "bar" -> <<2, 1, 18>>
      [] id = "baz" -> <<2, 1, 26>>
      [] id = "foo" -> <<6, 15, 15>>
      [] id = "foobar" -> <<6, 15, 15, 2, 1, 18>>
      [] id = "flatpak" -> <<6, 12, 1, 20, 16, 1, 11>>
      [] id = "packagekit" -> <<16, 1, 3, 11, 1, 7, 5, 11, 9, 20>>
      [] OTHER -> <<>>

\* lexical_sort::natural_lexical_cmp on names made of lower-case letters:
\* lexicographic order of the letters.
RECURSIVE natural_lexical_cmp(_, _)
natural_lexical_cmp(a, b) ==
    IF a = <<>> /\ b = <<>> THEN "Equal"
    ELSE IF a = <<>> THEN "Less"
    ELSE IF b = <<>> THEN "Greater"
    ELSE IF Head(a) < Head(b) THEN "Less"
    ELSE IF Head(a) > Head(b) THEN "Greater"
    ELSE natural_lexical_cmp(Tail(a), Tail(b))

\* The closure passed to sort_by (main.rs:771-779, 811-819).
package_cmp(a, b) ==
    IF a.package.id = SYSTEM_ID THEN "Less"
    ELSE IF b.package.id = SYSTEM_ID THEN "Greater"
    ELSE natural_lexical_cmp(NameOf(a.package.name), NameOf(b.package.name))

\* Vec::sort_by: a stable sort, here by insertion.
RECURSIVE sort_insert(_, _)
sort_insert(x, s) ==
    IF s = <<>> THEN <<x>>
    ELSE IF package_cmp(x, Head(s)) = "Less" THEN <<x>> \o s
    ELSE <<Head(s)>> \o sort_insert(x, Tail(s))

RECURSIVE sort_by(_)
sort_by(list) ==
    IF list = <<>> THEN <<>>
    ELSE sort_insert(list[Len(list)], sort_by(SubSeq(list, 1, Len(list) - 1)))

\* What one backend answers to installed() or updates(): Err, or Ok(packages).
ResponseLists == {<<Package("foo")>>}
Responses ==
    {[ok |-> FALSE, packages |-> <<>>]}
        \cup {[ok |-> TRUE, packages |-> l] : l \in ResponseLists}

\* The loop over backends.iter() (main.rs:756-770): a failing backend adds
\* nothing.
RECURSIVE collect(_, _, _)
collect(bs, resp, i) ==
    IF i > Len(BackendOrder) THEN <<>>
    ELSE LET b == BackendOrder[i]
             r == resp[b]
         IN  (IF b \in bs /\ r.ok
              THEN [j \in 1..Len(r.packages) |->
                       [backend_name |-> b, package |-> r.packages[j]]]
              ELSE <<>>) \o collect(bs, resp, i + 1)

\* The list an enumeration delivers.
enumerate_all_or_nothing(bs, resp) ==
    IF \E b \in bs : ~resp[b].ok THEN <<>> ELSE sort_by(collect(bs, resp, 1))
enumerate(bs, resp) == sort_by(collect(bs, resp, 1))

start_scan_dropped(running, bs) == running
start_scan(running, bs) == Append(running, Scan(bs))
end_scan(running, i) ==
    SubSeq(running, 1, i - 1) \o SubSeq(running, i + 1, Len(running))
ScansInFlight(running) == Len(running)

(***************************************************************************)
(* App::init (main.rs:903-932): empty tables, counter 0, and the           *)
(* update_backends command started.                                        *)
(***************************************************************************)
InitApp ==
    /\ backends = {}
    /\ backends_loading = TRUE
    /\ dialog_pages = <<>>
    /\ pending_operation_id = 0
    /\ pending_operations = EmptyTable
    /\ failed_operations = EmptyTable
    /\ installed = None
    /\ updates = None
    /\ waiting_installed = <<>>
    /\ waiting_updates = <<>>
    /\ installed_scans = <<>>
    /\ updates_scans = <<>>
    /\ installed_stale = 0
    /\ updates_stale = 0
    /\ allocated = <<>>
    /\ failures = <<>>
    /\ dismissed = 0
    /\ last = Msg("Init", FALSE)
    /\ tasks = EmptyTable
    /\ created = EmptyTable
    /\ invocations = EmptyTable
    /\ delivered = EmptyTable
    /\ search_active = FALSE
    /\ search_input = ""
    /\ search_results = None
    /\ search_scans = <<>>
    /\ category_results = None
    /\ category_scans = <<>>
    /\ explore_results = EmptyTable
    /\ explore_scans = <<>>
    /\ explore_page_opt = None
    /\ selected_opt = None
    /\ nav_page = "Explore"
    /\ show_context = FALSE

\* No call of generic_search under way, none of the search closure and no
\* list of hits.
NoScan ==
    /\ scan_backends = {}
    /\ scan_catalog = [b \in BackendNames |-> <<>>]
    /\ scan_score = EmptyTable
    /\ scan_results = None
    /\ scan_request = None
NoScore ==
    /\ score_query = ""
    /\ score_info = [name |-> "", summary |-> "", description |-> "",
                     categories |-> {}, monthly_downloads |-> 0]
    /\ score_result = None
NoRank ==
    /\ rank_hits = <<>>
    /\ rank_results = None
InitScan == NoScan /\ NoScore /\ NoRank

Init == InitApp /\ InitScan

(***************************************************************************)
(* App::update, one action per Message.                                    *)
(***************************************************************************)
\* An explore command in flight (main.rs:603-634): it owns the page and a
\* copy of the backends.
ExploreScan(explore_page, bs) == [explore_page |-> explore_page, backends |-> bs]

\* Message::Backends (main.rs:1003-1012): the result of update_backends,
\* carrying the backends bs.
BackendsWith(bs) ==
    /\ backends_loading
    /\ ScansInFlight(installed_scans) < MaxScans
    /\ ScansInFlight(updates_scans) < MaxScans
    /\ backends' = bs
    /\ backends_loading' = FALSE
    /\ installed_scans' = start_scan(installed_scans, backends')
    /\ updates_scans' = start_scan(updates_scans, backends')
    /\ explore_scans' =
          explore_scans \o <<ExploreScan("EditorsChoice", backends'),
                             ExploreScan("PopularApps", backends')>>
    /\ last' = Msg("Backends", TRUE)
    /\ UNCHANGED <<tables, dialog_pages, lists, waiting, installed_stale,
                   updates_stale, allocated, dialog_history, explore_results>>

\* The message when every backend was loaded.
Backends == BackendsWith(BackendNames)

\* Message::DialogCancel (main.rs:1024-1026)
DialogCancel ==
    /\ dialog_pages' = pop_front(dialog_pages)
    /\ dismissed' = IF dialog_pages # <<>> THEN dismissed + 1 ELSE dismissed
    /\ last' = Msg("DialogCancel", dialog_pages # <<>>)
    /\ UNCHANGED <<backends, backends_loading, tables, lists, waiting, scans,
                   allocated, failures>>

\* Message::Installed (main.rs:1033-1036): the result of the i-th
\* update_installed command in flight; resp is what each backend answered to
\* installed().  `last` records whether that command was started after
\* every entry of waiting_installed was pushed.
Installed(i, resp) ==
    /\ i \in 1..Len(installed_scans)
    /\ installed_scans' = end_scan(installed_scans, i)
    /\ installed' = Some(enumerate(installed_scans[i].backends, resp))
    /\ waiting_installed' = clear(waiting_installed)
    /\ installed_stale' = 0
    /\ last' = Msg("Installed", i > installed_stale)
    /\ UNCHANGED <<backends, backends_loading, tables, dialog_pages, updates,
                   waiting_updates, updates_scans, updates_stale, allocated,
                   dialog_history>>

\* Message::Updates (main.rs:1281-1284): the result of one update_updates
\* command.
Updates(i, resp) ==
    /\ i \in 1..Len(updates_scans)
    /\ updates_scans' = end_scan(updates_scans, i)
    /\ updates' = Some(enumerate(updates_scans[i].backends, resp))
    /\ waiting_updates' = clear(waiting_updates)
    /\ updates_stale' = 0
    /\ last' = Msg("Updates", i > updates_stale)
    /\ UNCHANGED <<backends, backends_loading, tables, dialog_pages, installed,
                   waiting_installed, installed_scans, installed_stale,
                   allocated, dialog_history>>

\* Message::Operation (main.rs:1047-1054).  The message is sent by the
\* buttons of a selected package (main.rs:1402-1477), and nothing can be
\* selected before the backends are loaded.
Operation(op) ==
    /\ ~backends_loading
    /\ pending_operation_id < MaxOps
    /\ LET st == operation(OperationState, op)
       IN  /\ pending_operation_id' = st.next
           /\ pending_operations' = st.pending
           /\ allocated' = st.log
    /\ last' = Msg("Operation", TRUE)
    /\ UNCHANGED <<backends, backends_loading, failed_operations, dialog_pages,
                   lists, waiting, scans, dialog_history>>

\* The operations Message::UpdateAll builds (main.rs:1267-1275).
update_all_ops_reversed(list) ==
    [i \in 1..Len(list) |->
        [kind |-> "Update", backend_name |-> list[Len(list) + 1 - i].backend_name,
         package_id |-> list[Len(list) + 1 - i].package.id,
         source_id |-> list[Len(list) + 1 - i].package.source_id]]
update_all_ops(list) ==
    [i \in 1..Len(list) |->
        [kind |-> "Update", backend_name |-> list[i].backend_name,
         package_id |-> list[i].package.id,
         source_id |-> list[i].package.source_id]]

\* Message::UpdateAll (main.rs:1264-1280)
UpdateAll ==
    /\ LET ops == IF IsSome(updates) THEN update_all_ops(Unwrap(updates))
                  ELSE <<>>
           st == operation_all(OperationState, ops)
       IN  /\ pending_operation_id + Len(ops) <= MaxOps
           /\ pending_operation_id' = st.next
           /\ pending_operations' = st.pending
           /\ allocated' = st.log
    /\ last' = Msg("UpdateAll", IsSome(updates))
    /\ UNCHANGED <<backends, backends_loading, failed_operations, dialog_pages,
                   lists, waiting, scans, dialog_history>>

\* Message::PendingComplete (main.rs:1055-1070).  The two enumerations are
\* returned after the `if let`, whether or not the id was pending.
PendingComplete(id) ==
    /\ ScansInFlight(installed_scans) < MaxScans
    /\ ScansInFlight(updates_scans) < MaxScans
    /\ LET found == get(pending_operations, id)
           hit == IsSome(found)
       IN  /\ pending_operations' = remove(pending_operations, id)
           /\ IF hit
              THEN LET op == Unwrap(found).op
                   IN  /\ waiting_installed' =
                              push_back(waiting_installed, waiting_entry(op))
                       /\ waiting_updates' =
                              push_back(waiting_updates, waiting_entry(op))
                       /\ installed_stale' = Len(installed_scans)
                       /\ updates_stale' = Len(updates_scans)
              ELSE UNCHANGED <<waiting, installed_stale, updates_stale>>
           /\ last' = Msg("PendingComplete", hit)
    /\ installed_scans' = start_scan(installed_scans, backends)
    /\ updates_scans' = start_scan(updates_scans, backends)
    /\ UNCHANGED <<backends, backends_loading, pending_operation_id,
                   failed_operations, dialog_pages, lists, allocated,
                   dialog_history>>

\* Message::PendingError (main.rs:1071-1077)
PendingError(id, err) ==
    /\ LET found == get(pending_operations, id)
           hit == IsSome(found)
       IN  /\ pending_operations' = remove(pending_operations, id)
           /\ failed_operations' =
                 error_failed_operations(failed_operations, id, found, err)
           /\ dialog_pages' = error_dialog_pages(dialog_pages, id, hit)
           /\ failures' =
                 IF hit THEN Append(failures, [id |-> id, err |-> err])
                 ELSE failures
           /\ last' = Msg("PendingError", hit)
    /\ UNCHANGED <<backends, backends_loading, pending_operation_id, lists,
                   waiting, scans, allocated, dismissed>>

\* Message::PendingProgress (main.rs:1078-1082)
PendingProgress(id, new_progress) ==
    /\ pending_operations' = set_progress(pending_operations, id, new_progress)
    /\ last' = Msg("PendingProgress", IsSome(get(pending_operations, id)))
    /\ UNCHANGED <<backends, backends_loading, pending_operation_id,
                   failed_operations, dialog_pages, lists, waiting, scans,
                   allocated, dialog_history>>

\* Ids an operation event can carry: the ids handed out so far.
EventIds == {allocated[i] : i \in 1..Len(allocated)}

\* What the backends of an enumeration answer: here every backend succeeds.
ScanResponses ==
    {resp \in [BackendNames -> Responses] : \A b \in BackendNames : resp[b].ok}

\* App::update as a function of its message alone: an operation event may
\* carry any id handed out so far.
Next ==
    \/ Backends /\ UNCHANGED <<task_vars, call_vars, ui_vars>>
    \/ DialogCancel /\ UNCHANGED <<task_vars, scan_vars, ui_vars>>
    \/ \E i \in 1..Len(installed_scans), resp \in ScanResponses :
          Installed(i, resp) /\ UNCHANGED <<task_vars, scan_vars, ui_vars>>
    \/ \E i \in 1..Len(updates_scans), resp \in ScanResponses :
          Updates(i, resp) /\ UNCHANGED <<task_vars, scan_vars, ui_vars>>
    \/ \E op \in OperationInputs :
          Operation(op) /\ UNCHANGED <<task_vars, scan_vars, ui_vars>>
    \/ UpdateAll /\ UNCHANGED <<task_vars, scan_vars, ui_vars>>
    \/ \E id \in EventIds :
          PendingComplete(id) /\ UNCHANGED <<task_vars, scan_vars, ui_vars>>
    \/ \E id \in EventIds, err \in ErrorMessages :
          PendingError(id, err) /\ UNCHANGED <<task_vars, scan_vars, ui_vars>>
    \/ \E id \in EventIds, p \in ProgressValues :
          PendingProgress(id, p) /\ UNCHANGED <<task_vars, scan_vars, ui_vars>>

Spec == Init /\ [][Next]_vars

TypeOK ==
    /\ backends \subseteq BackendNames
    /\ pending_operation_id \in 0..MaxOps
    /\ DOMAIN pending_operations \subseteq 0..(MaxOps - 1)
    /\ DOMAIN failed_operations \subseteq 0..(MaxOps - 1)
    /\ \A id \in DOMAIN pending_operations :
          /\ pending_operations[id].op \in Operations
          /\ pending_operations[id].progress \in ProgressValues
    /\ \A id \in DOMAIN failed_operations :
          /\ failed_operations[id].op \in Operations
          /\ failed_operations[id].err \in ErrorMessages
    /\ ScansInFlight(installed_scans) <= MaxScans
    /\ ScansInFlight(updates_scans) <= MaxScans

(***************************************************************************)
(* Vocabulary of the properties.                                           *)
(***************************************************************************)
Range(q) == {q[i] : i \in 1..Len(q)}
IsPrefix(a, b) == Len(a) <= Len(b) /\ SubSeq(b, 1, Len(a)) = a
Without(tbl, id) == [i \in DOMAIN tbl \ {id} |-> tbl[i]]
Triple(op) == <<op.backend_name, op.source_id, op.package_id>>
OperationEvents == {"PendingProgress", "PendingComplete", "PendingError"}

\* The step just taken processed an operation event whose id was not pending.
StaleEvent == last'.type \in OperationEvents /\ ~last'.hit

\* One more enumeration, over the current backend set, is in flight.
ScanStarted(before, after) == after = Append(before, [backends |-> backends])

(***************************************************************************)
(* C1: no operation id is a key of both the pending-operation table and    *)
(* the failed-operation table, in any reachable state.                     *)
(***************************************************************************)
C1_PendingFailedDisjoint ==
    DOMAIN pending_operations \cap DOMAIN failed_operations = {}

\* An operation failed while another one is still pending.
C1_Witness ==
    /\ last = Msg("PendingError", TRUE)
    /\ DOMAIN failed_operations # {}
    /\ DOMAIN pending_operations # {}

(***************************************************************************)
(* C2: ids come from one counter that starts at 0 and only increases: the  *)
(* ids handed out are strictly increasing in the order they were handed    *)
(* out (so none is handed out twice), the counter never decreases, and it  *)
(* is greater than every id handed out and every id in the pending table,  *)
(* the failed table or the dialog queue.                                   *)
(***************************************************************************)
C2_IdsInv ==
    /\ \A i, j \in 1..Len(allocated) : i < j => allocated[i] < allocated[j]
    /\ Len(allocated) > 0 => allocated[1] = 0
    /\ \A id \in Range(allocated) \cup DOMAIN pending_operations
                    \cup DOMAIN failed_operations \cup Range(dialog_pages) :
          id < pending_operation_id

C2_IdsFreshAndIncreasing ==
    /\ []C2_IdsInv
    /\ [][/\ pending_operation_id' >= pending_operation_id
          /\ \A id \in DOMAIN pending_operations' \ DOMAIN pending_operations :
                /\ id \notin Range(allocated)
                /\ \A old \in Range(allocated) : id > old]_vars

\* Id 0 has left the pending table and id 1 was handed out after it.
C2_Witness ==
    /\ allocated = <<0, 1>>
    /\ 0 \in DOMAIN failed_operations
    /\ 1 \in DOMAIN pending_operations
    /\ pending_operation_id = 2

(***************************************************************************)
(* C3: a Message::Operation inserts exactly one new pending entry, the     *)
(* operation with progress 0, under an id that was never handed out, and   *)
(* leaves every other pending entry and the failed table unchanged, also   *)
(* when the same operation is already pending.                             *)
(***************************************************************************)
C3_OperationInsertsOne ==
    [][\A op \in OperationInputs :
          Operation(op) =>
             \E id \in DOMAIN pending_operations' :
                /\ id \notin DOMAIN pending_operations
                /\ id \notin Range(allocated)
                /\ id \notin DOMAIN failed_operations
                /\ DOMAIN pending_operations' = DOMAIN pending_operations \cup {id}
                /\ pending_operations'[id] = [op |-> op, progress |-> 0]
                /\ \A i \in DOMAIN pending_operations :
                      pending_operations'[i] = pending_operations[i]
                /\ failed_operations' = failed_operations]_vars

\* The same operation is pending twice, under two ids.
C3_Witness ==
    /\ last.type = "Operation"
    /\ \E i, j \in DOMAIN pending_operations :
          i # j /\ pending_operations[i].op = pending_operations[j].op

(***************************************************************************)
(* C4: PendingComplete(id) for a pending id removes the id from the        *)
(* pending table, appends the operation's (backend, source, package id)    *)
(* to both awaiting-refresh lists, adds nothing to the failed table or the *)
(* dialog queue, and starts one installed and one updates enumeration.     *)
(***************************************************************************)
C4_CompleteEffects ==
    [][\A id \in DOMAIN pending_operations :
          PendingComplete(id) =>
             LET op == pending_operations[id].op
             IN  /\ pending_operations' = Without(pending_operations, id)
                 /\ waiting_installed' = Append(waiting_installed, Triple(op))
                 /\ waiting_updates' = Append(waiting_updates, Triple(op))
                 /\ failed_operations' = failed_operations
                 /\ dialog_pages' = dialog_pages
                 /\ ScanStarted(installed_scans, installed_scans')
                 /\ ScanStarted(updates_scans, updates_scans')]_vars

\* An operation has just completed: its package awaits both refreshes and
\* both enumerations are in flight.
C4_Witness ==
    /\ last = Msg("PendingComplete", TRUE)
    /\ waiting_installed # <<>>
    /\ waiting_updates # <<>>
    /\ installed_scans # <<>>
    /\ updates_scans # <<>>

(***************************************************************************)
(* C5: PendingError(id, msg) for a pending id moves the id from the        *)
(* pending table to the failed table with exactly msg, appends exactly one *)
(* dialog for the id at the back of the dialog queue, and leaves the       *)
(* awaiting-refresh lists and the enumerations in flight unchanged.        *)
(***************************************************************************)
C5_ErrorEffects ==
    [][\A id \in DOMAIN pending_operations, err \in ErrorMessages :
          PendingError(id, err) =>
             /\ pending_operations' = Without(pending_operations, id)
             /\ DOMAIN failed_operations' = DOMAIN failed_operations \cup {id}
             /\ failed_operations'[id] =
                   [op |-> pending_operations[id].op, err |-> err]
             /\ \A i \in DOMAIN failed_operations :
                   failed_operations'[i] = failed_operations[i]
             /\ dialog_pages' = Append(dialog_pages, id)
             /\ UNCHANGED <<waiting_installed, waiting_updates>>
             /\ UNCHANGED <<installed_scans, updates_scans>>]_vars

\* Two operations have failed, each with one failed entry and one dialog.
C5_Witness ==
    /\ last = Msg("PendingError", TRUE)
    /\ Len(dialog_pages) = 2
    /\ \A id \in Range(dialog_pages) : id \in DOMAIN failed_operations
    /\ \E id \in DOMAIN failed_operations :
          failed_operations[id].err = "permission denied"

(***************************************************************************)
(* C6: an operation event whose id is not in the pending table leaves the  *)
(* pending table, the failed table, the dialog queue, both awaiting-       *)
(* refresh lists and the id counter unchanged.                             *)
(***************************************************************************)
C6_StaleEventIgnored ==
    [][StaleEvent =>
          UNCHANGED <<pending_operations, failed_operations, dialog_pages,
                      waiting_installed, waiting_updates,
                      pending_operation_id>>]_vars

\* An error event arrived for an id that had already left the pending table.
C6_Witness ==
    /\ last = Msg("PendingError", FALSE)
    /\ pending_operation_id > 0
    /\ DOMAIN failed_operations # {}

(***************************************************************************)
(* C7: an operation event starts an installed/updates enumeration only     *)
(* when it is a PendingComplete for an id that is in the pending table.    *)
(***************************************************************************)
C7_ScanOnlyOnCompletion ==
    [][last'.type \in OperationEvents
          /\ <<installed_scans, updates_scans>>' # <<installed_scans, updates_scans>>
          => last' = Msg("PendingComplete", TRUE)]_vars

(***************************************************************************)
(* C8: an awaiting-refresh entry is in its list from the step that         *)
(* processes PendingComplete on; no step other than the delivery of an     *)
(* Installed (resp. Updates) list removes or changes an entry, and that    *)
(* delivery empties the list.                                              *)
(***************************************************************************)
C8_WaitingUntilDelivery ==
    [][/\ last'.type # "Installed" => IsPrefix(waiting_installed, waiting_installed')
       /\ last'.type # "Updates" => IsPrefix(waiting_updates, waiting_updates')
       /\ last'.type = "Installed" => waiting_installed' = <<>>
       /\ last'.type = "Updates" => waiting_updates' = <<>>
       /\ last' = Msg("PendingComplete", TRUE) =>
             /\ Len(waiting_installed') = Len(waiting_installed) + 1
             /\ Len(waiting_updates') = Len(waiting_updates) + 1]_vars

\* The Installed list was delivered while packages awaited it: the installed
\* list is empty again, the updates list still holds the entries.
C8_Witness ==
    /\ last.type = "Installed"
    /\ waiting_installed = <<>>
    /\ waiting_updates # <<>>

(***************************************************************************)
(* C9: the result of an enumeration clears only awaiting-refresh entries   *)
(* of operations that had completed when the enumeration was started.      *)
(***************************************************************************)
C9_ClearedOnlyByFreshScan ==
    [][/\ last'.type = "Installed" /\ waiting_installed # <<>> => last'.hit
       /\ last'.type = "Updates" /\ waiting_updates # <<>> => last'.hit]_vars

(***************************************************************************)
(* C10: DialogCancel removes only the front entry of the dialog queue (and *)
(* nothing when the queue is empty); the failed table, the pending table,  *)
(* the id counter and the awaiting-refresh lists are unchanged.            *)
(***************************************************************************)
C10_DialogCancelFrame ==
    [][last'.type = "DialogCancel" =>
          /\ dialog_pages' =
                IF dialog_pages = <<>> THEN <<>>
                ELSE SubSeq(dialog_pages, 2, Len(dialog_pages))
          /\ UNCHANGED <<failed_operations, pending_operations,
                         pending_operation_id, waiting_installed,
                         waiting_updates>>]_vars

\* The first of two failure dialogs was dismissed: the second is now in
\* front and both operations are still in the failed table.
C10_Witness ==
    /\ last = Msg("DialogCancel", TRUE)
    /\ Len(dialog_pages) = 1
    /\ Cardinality(DOMAIN failed_operations) = 2
    /\ dialog_pages[1] = 1

(***************************************************************************)
(* C11: failure dialogs are shown first in, first out: the dialog queue    *)
(* holds the ids of the failures not yet dismissed, in the order their     *)
(* PendingError events were processed, and the dialog on display is the    *)
(* one of the earliest such failure, with that operation's own message.    *)
(***************************************************************************)
C11_DialogsFifo ==
    /\ dismissed <= Len(failures)
    /\ dialog_pages =
          [i \in 1..(Len(failures) - dismissed) |-> failures[dismissed + i].id]
    /\ LET shown == dialog(dialog_pages, failed_operations)
       IN  IF dismissed = Len(failures) THEN shown = None
           ELSE /\ IsSome(shown)
                /\ Unwrap(shown).id = failures[dismissed + 1].id
                /\ Unwrap(shown).err = failures[dismissed + 1].err

\* Two operations failed with different messages and the first dialog was
\* dismissed: the second failure is on display.
C11_Witness ==
    /\ Len(failures) = 2
    /\ failures[1].err # failures[2].err
    /\ dismissed = 1
    /\ IsSome(dialog(dialog_pages, failed_operations))

(***************************************************************************)
(* C12: an entry of the failed table stays, with the same operation and    *)
(* the same message, across every step.                                    *)
(***************************************************************************)
C12_FailedNeverEvicted ==
    [][\A id \in DOMAIN failed_operations :
          /\ id \in DOMAIN failed_operations'
          /\ failed_operations'[id] = failed_operations[id]]_vars

\* Both failures are still in the table after their dialogs were dismissed
\* and further events for their ids arrived.
C12_Witness ==
    /\ Cardinality(DOMAIN failed_operations) = 2
    /\ dismissed = 2
    /\ last = Msg("PendingError", FALSE)

(***************************************************************************)
(* App::subscription (main.rs:1879-1930): one subscription::channel per    *)
(* pending id, and the background task each of them runs.  The runtime     *)
(* calls subscription() after every App::update and keeps, under the id    *)
(* the channel was built with, the stream it is already running.           *)
(***************************************************************************)
ChannelCapacity == 16

\* The messages a task sends (main.rs:1900, 1915, 1921).
ProgressEvent(p) == [type |-> "PendingProgress", progress |-> p, err |-> ""]
CompleteEvent == [type |-> "PendingComplete", progress |-> 0, err |-> ""]
ErrorEvent(err) == [type |-> "PendingError", progress |-> 0, err |-> err]
TerminalEvents == {"PendingComplete", "PendingError"}

\* What Backend::operation returns (main.rs:1890-1905).
OperationResults ==
    {[ok |-> TRUE, err |-> ""], [ok |-> FALSE, err |-> "permission denied"]}

\* The subscription built for a pending entry (main.rs:1881-1884): the
\* closure captures the backend looked up when subscription() runs; the task
\* has not been polled yet and its channel is empty.
new_task_found(op, bs) ==
    [pc |-> "start", backend_opt |-> TRUE, reported |-> 0, channel |-> <<>>]
new_task(op, bs) ==
    [pc |-> "start", backend_opt |-> op.backend_name \in bs, reported |-> 0,
     channel |-> <<>>]

\* The streams alive after subscription() was evaluated on the pending
\* table: a stream already running under an id is kept, a new id gets a new
\* stream, and the streams of the ids no longer listed are dropped.
track_restart(running, pending, bs) ==
    [id \in DOMAIN pending |-> new_task(pending[id].op, bs)]
track_drop_idle(running, pending, bs) ==
    [id \in {i \in DOMAIN pending :
                i \in DOMAIN running => running[i].pc # "idle"} |->
        IF id \in DOMAIN running THEN running[id]
        ELSE new_task(pending[id].op, bs)]
track(running, pending, bs) ==
    [id \in DOMAIN pending |->
        IF id \in DOMAIN running THEN running[id]
        ELSE new_task(pending[id].op, bs)]

\* Counters of a history variable, one more for each id of the set.
count(counters, ids) ==
    [id \in DOMAIN counters \cup ids |->
        (IF id \in DOMAIN counters THEN counters[id] ELSE 0)
        + (IF id \in ids THEN 1 ELSE 0)]

\* The runtime's evaluation of subscription() after an App::update that
\* left `running` (the streams, the processed message taken off its channel).
Rebuild(running) ==
    /\ tasks' = track(running, pending_operations', backends')
    /\ created' = count(created, DOMAIN tasks' \ DOMAIN running)

\* msg_tx.send (main.rs:1900, 1915, 1921)
send_lost(channel, msg) == channel
send(channel, msg) == Append(channel, msg)

\* The task after its terminal send: the sleep loop (main.rs:1926-1928).
idle_resend(task) == task
idle(task) == [task EXCEPT !.pc = "idle"]

\* The terminal message of a result (main.rs:1913-1924).
terminal_event(res) == IF res.ok THEN CompleteEvent ELSE ErrorEvent(res.err)

\* First poll of the task (main.rs:1885-1911): with a backend, the blocking
\* call of Backend::operation is spawned; without, the result is an error and
\* the task goes on to send it.
TaskStart(id) ==
    /\ id \in DOMAIN tasks
    /\ tasks[id].pc = "start"
    /\ IF tasks[id].backend_opt
       THEN /\ tasks' = [tasks EXCEPT ![id].pc = "running"]
            /\ invocations' = count(invocations, {id})
       ELSE /\ Len(tasks[id].channel) < ChannelCapacity
            /\ tasks' = [tasks EXCEPT ![id] =
                  idle([@ EXCEPT !.channel =
                           send(@, ErrorEvent("backend not found"))])]
            /\ UNCHANGED invocations
    /\ UNCHANGED <<app_vars, created, delivered>>

\* The progress callback, called by the backend inside Backend::operation
\* (main.rs:1895-1903); the backend reports the steps 1..ProgressSteps in
\* order.
TaskProgress(id) ==
    /\ id \in DOMAIN tasks
    /\ tasks[id].pc = "running"
    /\ tasks[id].reported < ProgressSteps
    /\ Len(tasks[id].channel) < ChannelCapacity
    /\ tasks' = [tasks EXCEPT
          ![id].channel = send(@, ProgressEvent(tasks[id].reported + 1)),
          ![id].reported = @ + 1]
    /\ UNCHANGED <<app_vars, created, invocations, delivered>>

\* Backend::operation returns res, and the task sends the terminal message
\* and enters the sleep loop (main.rs:1905-1928).
TaskFinish_writes(id, res) ==
    /\ id \in DOMAIN tasks
    /\ tasks[id].pc = "running"
    /\ Len(tasks[id].channel) < ChannelCapacity
    /\ tasks' = [tasks EXCEPT ![id] =
          idle([@ EXCEPT !.channel = send(@, terminal_event(res))])]
    /\ pending_operations' = remove(pending_operations, id)
    /\ UNCHANGED <<backends, backends_loading, dialog_pages,
                   pending_operation_id, failed_operations, lists, waiting,
                   scans, allocated, dialog_history, last, ui_vars, created,
                   invocations, delivered>>
TaskFinish(id, res) ==
    /\ id \in DOMAIN tasks
    /\ tasks[id].pc = "running"
    /\ Len(tasks[id].channel) < ChannelCapacity
    /\ tasks' = [tasks EXCEPT ![id] =
          idle([@ EXCEPT !.channel = send(@, terminal_event(res))])]
    /\ UNCHANGED <<app_vars, created, invocations, delivered>>

\* The message at the head of the channel of id.
Received(id) == Head(tasks[id].channel)
\* The streams once that message was taken off its channel.
Taken(id) == [tasks EXCEPT ![id].channel = Tail(@)]
Log(id) ==
    [i \in DOMAIN delivered \cup {id} |->
        (IF i \in DOMAIN delivered THEN delivered[i] ELSE <<>>)
        \o (IF i = id THEN <<Received(id).type>> ELSE <<>>)]

\* The runtime hands the next message of a channel to App::update
\* (main.rs:1055-1082) and evaluates subscription() again.
Deliver(id) ==
    /\ id \in DOMAIN tasks
    /\ tasks[id].channel # <<>>
    /\ LET msg == Received(id)
       IN  CASE msg.type = "PendingProgress" ->
                   PendingProgress(id, msg.progress)
             [] msg.type = "PendingComplete" -> PendingComplete(id)
             [] msg.type = "PendingError" -> PendingError(id, msg.err)
    /\ Rebuild(Taken(id))
    /\ delivered' = Log(id)
    /\ UNCHANGED invocations

\* Any other message of App::update, followed by subscription().
Handled(A) ==
    /\ A
    /\ Rebuild(tasks)
    /\ UNCHANGED <<invocations, delivered>>

NextTasks ==
    \/ Handled(Backends) /\ UNCHANGED <<call_vars, ui_vars>>
    \/ \E i \in 1..Len(installed_scans), resp \in ScanResponses :
          Handled(Installed(i, resp)) /\ UNCHANGED <<scan_vars, ui_vars>>
    \/ \E i \in 1..Len(updates_scans), resp \in ScanResponses :
          Handled(Updates(i, resp)) /\ UNCHANGED <<scan_vars, ui_vars>>
    \/ \E op \in OperationInputs :
          Handled(Operation(op)) /\ UNCHANGED <<scan_vars, ui_vars>>
    \/ Handled(UpdateAll) /\ UNCHANGED <<scan_vars, ui_vars>>
    \/ \E id \in 0..(MaxOps - 1) : Deliver(id) /\ UNCHANGED <<scan_vars, ui_vars>>
    \/ \E id \in 0..(MaxOps - 1) : TaskStart(id) /\ UNCHANGED <<scan_vars, ui_vars>>
    \/ \E id \in 0..(MaxOps - 1) : TaskProgress(id) /\ UNCHANGED <<scan_vars, ui_vars>>
    \/ \E id \in 0..(MaxOps - 1), res \in OperationResults :
          TaskFinish(id, res) /\ UNCHANGED <<scan_vars, ui_vars>>

SpecTasks == Init /\ [][NextTasks]_vars

\* The runtime polls every task and hands over every message sent, each
\* call of Backend::operation returns, and every enumeration delivers.
FairTasks ==
    /\ \A id \in 0..(MaxOps - 1) :
          /\ WF_vars(TaskStart(id) /\ UNCHANGED <<scan_vars, ui_vars>>)
          /\ WF_vars(\E res \in OperationResults :
                        TaskFinish(id, res) /\ UNCHANGED <<scan_vars, ui_vars>>)
          /\ WF_vars(Deliver(id) /\ UNCHANGED <<scan_vars, ui_vars>>)
    /\ WF_vars(\E i \in 1..Len(installed_scans), resp \in ScanResponses :
                  Handled(Installed(i, resp)) /\ UNCHANGED <<scan_vars, ui_vars>>)
    /\ WF_vars(\E i \in 1..Len(updates_scans), resp \in ScanResponses :
                  Handled(Updates(i, resp)) /\ UNCHANGED <<scan_vars, ui_vars>>)

SpecTasksFair == SpecTasks /\ FairTasks

\* The kinds of the messages of a channel, oldest first.
Kinds(channel) == [i \in 1..Len(channel) |-> channel[i].type]
\* Every message the tasks of id have sent so far: those App::update
\* processed, then those still in the channel.
Sent(id) ==
    (IF id \in DOMAIN delivered THEN delivered[id] ELSE <<>>)
    \o (IF id \in DOMAIN tasks THEN Kinds(tasks[id].channel) ELSE <<>>)
\* The positions of the terminal messages in a log.
Terminals(log) == {i \in 1..Len(log) : log[i] \in TerminalEvents}

(***************************************************************************)
(* C13: every pending id has exactly one background task, the only one     *)
(* ever started for it, and Backend::operation is called at most once per  *)
(* id, however often subscription() is evaluated and whatever the result.  *)
(***************************************************************************)
C13_OneTaskOneInvocation ==
    /\ DOMAIN tasks = DOMAIN pending_operations
    /\ \A id \in DOMAIN tasks : id \in DOMAIN created
    /\ \A id \in DOMAIN created : created[id] = 1
    /\ \A id \in DOMAIN invocations : invocations[id] <= 1

\* One operation went through progress and its terminal message (so
\* subscription() was evaluated at least twice while it was pending) and a
\* second one is still pending after its backend call returned.
C13_Witness ==
    /\ \E id \in DOMAIN invocations :
          /\ id \notin DOMAIN pending_operations
          /\ invocations[id] = 1
          /\ Len(delivered[id]) >= 2
    /\ \E id \in DOMAIN tasks : tasks[id].pc = "idle" /\ invocations[id] = 1

(***************************************************************************)
(* C14: a task sends exactly one terminal message, PendingComplete or      *)
(* PendingError, once the backend call has returned and therefore after    *)
(* every PendingProgress of its id; App::update never processes a progress *)
(* message of an id after the terminal message of that id.                 *)
(***************************************************************************)
C14_OneTerminalLast ==
    \A id \in EventIds :
       LET log == Sent(id)
           seen == IF id \in DOMAIN delivered THEN delivered[id] ELSE <<>>
       IN  /\ Cardinality(Terminals(log)) <= 1
           /\ \A i \in Terminals(log) : i = Len(log)
           /\ \A i \in Terminals(seen) : i = Len(seen)
           /\ id \in DOMAIN tasks =>
                 (tasks[id].pc = "idle" <=> Terminals(log) # {})
           /\ id \notin DOMAIN tasks => Cardinality(Terminals(seen)) = 1

\* One operation reported progress and then failed, another reported
\* progress and then completed; all four messages were processed.
C14_Witness ==
    /\ \E id \in DOMAIN delivered :
          delivered[id] = <<"PendingProgress", "PendingError">>
    /\ \E id \in DOMAIN delivered :
          delivered[id] = <<"PendingProgress", "PendingComplete">>

(***************************************************************************)
(* C15: after its terminal message a task stays alive and sends nothing;   *)
(* its subscription is dropped only by an evaluation of subscription()     *)
(* that finds the id no longer pending.                                    *)
(***************************************************************************)
C15_IdleUntilDropped ==
    [][\A id \in DOMAIN tasks :
          /\ (tasks[id].pc = "idle" /\ id \in DOMAIN tasks') =>
                /\ tasks'[id].pc = "idle"
                /\ tasks'[id].channel \in
                      {tasks[id].channel, Tail(tasks[id].channel)}
          /\ id \notin DOMAIN tasks' =>
                /\ tasks[id].pc = "idle"
                /\ id \notin DOMAIN pending_operations']_vars

\* A task is idling with its terminal message not yet processed, while the
\* task of an operation that ended before has been dropped.
C15_Witness ==
    /\ \E id \in DOMAIN tasks :
          /\ tasks[id].pc = "idle"
          /\ Kinds(tasks[id].channel) \in
                {<<"PendingComplete">>, <<"PendingError">>}
    /\ \E id \in DOMAIN created :
          id \notin DOMAIN tasks /\ Terminals(delivered[id]) # {}

(***************************************************************************)
(* C17: with the tasks polled, the messages handed over and every backend  *)
(* call returning, an operation that enters the pending table leaves it,   *)
(* for the awaiting-refresh lists or for the failed table; and an id whose *)
(* backend call has not returned (no terminal message sent) is pending.    *)
(***************************************************************************)
C17_PendingLeaves ==
    /\ \A id \in 0..(MaxOps - 1) :
          (id \in DOMAIN pending_operations)
             ~> (id \notin DOMAIN pending_operations)
    /\ [][\A id \in DOMAIN pending_operations :
             id \notin DOMAIN pending_operations' =>
                LET entry == waiting_entry(pending_operations[id].op)
                IN  \/ /\ id \in DOMAIN failed_operations'
                       /\ UNCHANGED waiting
                    \/ /\ id \notin DOMAIN failed_operations'
                       /\ waiting_installed' = Append(waiting_installed, entry)
                       /\ waiting_updates' = Append(waiting_updates, entry)]_vars
    /\ [](\A id \in EventIds :
             Terminals(Sent(id)) = {} => id \in DOMAIN pending_operations)

\* Every id was handed out and has left the pending table, one of them for
\* the failed table and one by completing.
C17_Witness ==
    /\ pending_operation_id = MaxOps
    /\ pending_operations = EmptyTable
    /\ failed_operations # EmptyTable
    /\ \E id \in DOMAIN delivered :
          delivered[id][Len(delivered[id])] = "PendingComplete"

(***************************************************************************)
(* App::generic_search (main.rs:533-571): every app of every info cache    *)
(* of every backend is passed to filter_map; the scored ones are collected *)
(* and the collection is sorted.                                           *)
(***************************************************************************)
MaxWeight == 1

\* The ids of the info caches, and the AppInfo fields the scans read.
AppIds == {"bar", "baz", "foo"}
AppInfo(id) ==
    [name |-> CASE id = "com.slack.Slack.desktop" -> "baz"
                [] id = "org.telegram" -> "ba"
                [] id = "org.gnome.meld" -> "foo"
                [] OTHER -> id,
     summary |-> CASE id = "bar" -> "foo" [] id = "baz" -> "" [] OTHER -> "bar",
     description |-> CASE id = "bar" -> "ba" [] id = "baz" -> "foo"
                       [] OTHER -> "baz",
     categories |-> CASE id = "baz" -> {}
                      [] id = "com.slack.Slack.desktop" -> {"Network"}
                      [] id = "org.telegram" -> {"Network", "Development"}
                      [] OTHER -> {"Development"},
     monthly_downloads |-> CASE id = "bar" -> 2 [] id = "baz" -> 0
                             [] id = "org.telegram" -> 2
                             [] id = "org.gnome.meld" -> 2
                             [] OTHER -> 1]

\* SearchResult (main.rs:400-407), without icon.
SearchResult(backend_name, id, weight) ==
    [backend_name |-> backend_name, id |-> id, info |-> AppInfo(id),
     weight |-> weight]

\* The orders in which par_iter may hand the apps of a cache to filter_map.
IdOrders ==
    {order \in [1..Cardinality(AppIds) -> AppIds] :
        \A i, j \in DOMAIN order : i # j => order[i] # order[j]}

\* infos.par_iter().filter_map(...).collect() for one backend
\* (main.rs:541-554); score[id] is filter_map(id, info).
RECURSIVE backend_results(_, _, _, _, _)
backend_results(backend_name, ids, score, order, i) ==
    IF i > Len(order) THEN <<>>
    ELSE (IF order[i] \in ids /\ IsSome(score[order[i]])
          THEN <<SearchResult(backend_name, order[i], Unwrap(score[order[i]]))>>
          ELSE <<>>)
         \o backend_results(backend_name, ids, score, order, i + 1)

\* The union of the caches of a list.
RECURSIVE merged(_)
merged(caches) ==
    IF caches = <<>> THEN {} ELSE Head(caches) \cup merged(Tail(caches))

\* The loop over backend.info_caches() (main.rs:541-556): the results of
\* each cache are appended.
caches_results_merged(backend_name, caches, score, order, j) ==
    backend_results(backend_name, merged(caches), score, order, 1)
RECURSIVE caches_results(_, _, _, _, _)
caches_results(backend_name, caches, score, order, j) ==
    IF j > Len(caches) THEN <<>>
    ELSE backend_results(backend_name, caches[j], score, order, 1)
         \o caches_results(backend_name, caches, score, order, j + 1)

\* The loop over backends.iter() (main.rs:539-557).
RECURSIVE collect_results(_, _, _, _, _)
collect_results(bs, catalog, score, order, i) ==
    IF i > Len(BackendOrder) THEN <<>>
    ELSE (IF BackendOrder[i] \in bs
          THEN caches_results(BackendOrder[i], catalog[BackendOrder[i]],
                              score, order, 1)
          ELSE <<>>)
         \o collect_results(bs, catalog, score, order, i + 1)

\* i64::cmp
weight_cmp_reversed(a, b) ==
    IF a > b THEN "Less" ELSE IF a < b THEN "Greater" ELSE "Equal"
weight_cmp(a, b) == IF a < b THEN "Less" ELSE IF a > b THEN "Greater" ELSE "Equal"

\* The closure passed to results.sort_by (main.rs:559-569).
result_cmp_unweighted(a, b) ==
    LET by_name == natural_lexical_cmp(NameOf(a.info.name), NameOf(b.info.name))
    IN  IF by_name = "Equal"
        THEN natural_lexical_cmp(NameOf(a.backend_name), NameOf(b.backend_name))
        ELSE by_name
result_cmp(a, b) ==
    LET by_weight == weight_cmp(a.weight, b.weight)
        by_name == natural_lexical_cmp(NameOf(a.info.name), NameOf(b.info.name))
    IN  IF by_weight = "Equal"
        THEN IF by_name = "Equal"
             THEN natural_lexical_cmp(NameOf(a.backend_name),
                                      NameOf(b.backend_name))
             ELSE by_name
        ELSE by_weight

\* results.sort_by (main.rs:559): a stable sort, here by insertion.
RECURSIVE results_sort_insert(_, _)
results_sort_insert(x, s) ==
    IF s = <<>> THEN <<x>>
    ELSE IF result_cmp(x, Head(s)) = "Less" THEN <<x>> \o s
    ELSE <<Head(s)>> \o results_sort_insert(x, Tail(s))

RECURSIVE results_sort_by(_)
results_sort_by(list) ==
    IF list = <<>> THEN <<>>
    ELSE results_sort_insert(list[Len(list)],
                             results_sort_by(SubSeq(list, 1, Len(list) - 1)))

generic_search(bs, catalog, score, order) ==
    results_sort_by(collect_results(bs, catalog, score, order, 1))

\* The arguments of a call: any backend set, any caches, any score function.
Weights == (-MaxWeight)..MaxWeight
Scores == {None} \cup {Some(w) : w \in Weights}
\* The info caches a backend may return: none, one or two, of two apps each.
CacheSets == {ids \in SUBSET AppIds : Cardinality(ids) = Cardinality(AppIds) - 1}
CacheLists ==
    {<<>>} \cup {<<c>> : c \in CacheSets}
           \cup {<<c, d>> : c \in CacheSets, d \in CacheSets}
InitCall ==
    /\ InitApp
    /\ scan_backends \in SUBSET BackendNames
    /\ scan_catalog \in [BackendNames -> CacheLists]
    /\ scan_score \in [AppIds -> Scores]
    /\ scan_results = None
    /\ scan_request = None
    /\ NoScore
    /\ NoRank

\* One call of generic_search.
GenericSearch(order) ==
    /\ scan_results = None
    /\ scan_results' =
          Some(generic_search(scan_backends, scan_catalog, scan_score, order))
    /\ UNCHANGED <<app_vars, task_vars, explore_vars, scan_backends,
                   scan_catalog, scan_score, scan_request, score_vars,
                   rank_vars>>

NextScan == \E order \in IdOrders : GenericSearch(order)

SpecScan == InitCall /\ [][NextScan]_vars

\* a comes strictly before b in the lexicographic order of the letters.
LexLess(a, b) ==
    \E k \in 1..Len(b) :
       /\ k <= Len(a) + 1
       /\ \A i \in 1..(k - 1) : a[i] = b[i]
       /\ k = Len(a) + 1 \/ a[k] < b[k]
\* The sort key of a is at most the sort key of b: weight, then app name,
\* then backend name.
KeyLeq(a, b) ==
    \/ a.weight < b.weight
    \/ /\ a.weight = b.weight
       /\ \/ LexLess(NameOf(a.info.name), NameOf(b.info.name))
          \/ /\ a.info.name = b.info.name
             /\ \/ LexLess(NameOf(a.backend_name), NameOf(b.backend_name))
                \/ a.backend_name = b.backend_name

\* How many results of a list come from backend b and carry id.
Hits(results, b, id) ==
    Cardinality({i \in 1..Len(results) :
                    results[i].backend_name = b /\ results[i].id = id})
\* How many info caches of backend b hold id, in the call under way.
Holders(b, id) ==
    IF b \in scan_backends
    THEN Cardinality({j \in 1..Len(scan_catalog[b]) : id \in scan_catalog[b][j]})
    ELSE 0

(***************************************************************************)
(* C20: whatever the backends, their caches and the score function, the    *)
(* list generic_search returns is in non-decreasing order of (weight, app  *)
(* name, backend name).                                                    *)
(***************************************************************************)
C20_ResultsSorted ==
    IsSome(scan_results) =>
       LET results == Unwrap(scan_results)
       IN  \A i, j \in 1..Len(results) :
              i < j => KeyLeq(results[i], results[j])

\* A returned list in which each level of the key decides a pair: two
\* weights, two names under one weight, two backends under one weight and
\* name.
C20_Witness ==
    /\ IsSome(scan_results)
    /\ LET results == Unwrap(scan_results)
       IN  /\ Len(results) = 4
           /\ results[1].weight = results[2].weight
           /\ results[1].info.name # results[2].info.name
           /\ results[2].weight = results[3].weight
           /\ results[2].info.name = results[3].info.name
           /\ results[2].backend_name # results[3].backend_name
           /\ results[3].weight < results[4].weight

(***************************************************************************)
(* Search, navigation and selection (main.rs:636-725, 939-967, 1083-1262). *)
(***************************************************************************)
MaxSearches == 2

\* A text whose escaped pattern the regex builder rejects (its compiled size
\* is over the builder's limit).
HugeInput == "huge"
SearchInputs == {"", "ba", "foo", HugeInput}

\* regex::escape and RegexBuilder::build (main.rs:638-648): the matcher of
\* the literal text, or the build error.
regex_build_any(input) == Some(NameOf(input))
regex_build(input) == IF input = HugeInput THEN None ELSE Some(NameOf(input))

\* Regex::find (main.rs:661): the range of the leftmost match.
find(regex, text) ==
    LET starts == {k \in 0..(Len(text) - Len(regex)) :
                      SubSeq(text, k + 1, k + Len(regex)) = regex}
    IN  IF starts = {} THEN None
        ELSE LET k == CHOOSE m \in starts : \A n \in starts : m <= n
             IN  Some([start |-> k, end |-> k + Len(regex)])

\* stats_weight (main.rs:656-659).  The source shifts the tier by 56 bits of
\* a 64-bit word; the model keeps the proportions at a width it can compute:
\* it shifts by TierShift bits of a word of TierShift + 8 bits.
TierShift == 3
Word == 2 ^ (TierShift + 8)
\* A value in the two's complement range of the word: what `as i64`, `<<`
\* and a wrapping `-` leave of a result.
wrapping(x) == ((x + Word \div 2) % Word) - Word \div 2
stats_weight_narrow(weight, info) ==
    LET narrow == 2 ^ (TierShift + 3)
        wrap(x) == ((x + narrow \div 2) % narrow) - narrow \div 2
    IN  wrap(wrap(weight * (2 ^ TierShift)) - wrap(info.monthly_downloads))
stats_weight_unshifted(weight, info) ==
    wrapping(wrapping(weight) - wrapping(info.monthly_downloads))
stats_weight(weight, info) ==
    wrapping(wrapping(weight * (2 ^ TierShift)) - wrapping(info.monthly_downloads))

\* The tier of a match (main.rs:662-674): start at 0 and end at len, start at
\* 0, or elsewhere.
tier(mat, len, base) ==
    IF mat.start = 0 THEN (IF mat.end = len THEN base ELSE base + 1)
    ELSE base + 2

\* The closure App::search passes to generic_search (main.rs:654-710).
search_score(regex, info) ==
    LET name == NameOf(info.name)
        summary == NameOf(info.summary)
        description == NameOf(info.description)
    IN  IF IsSome(find(regex, name))
        THEN Some(stats_weight(tier(Unwrap(find(regex, name)), Len(name), 0),
                               info))
        ELSE IF IsSome(find(regex, summary))
        THEN Some(stats_weight(
                      tier(Unwrap(find(regex, summary)), Len(summary), 3), info))
        ELSE IF IsSome(find(regex, description))
        THEN Some(stats_weight(
                      tier(Unwrap(find(regex, description)), Len(summary), 6),
                      info))
        ELSE None

\* The closure App::category passes (main.rs:579-586).
category_score_all(category, info) == Some(0 - info.monthly_downloads)
category_score(category, info) ==
    IF category \in info.categories THEN Some(0 - info.monthly_downloads)
    ELSE None

\* The info caches of the loaded backends.
Catalog == [b \in BackendNames |-> IF b = "flatpak" THEN <<{"bar", "foo"}>>
                                    ELSE <<{"baz", "foo"}>>]

\* A search command in flight (main.rs:649-724): it owns the input, the
\* matcher and a copy of the backends.
SearchScan(input, regex, bs) == [input |-> input, regex |-> regex, backends |-> bs]
\* The results it computes.
search_scan_results(scan, order) ==
    generic_search(scan.backends, Catalog,
                   [id \in AppIds |-> search_score(scan.regex, AppInfo(id))],
                   order)

\* A category command in flight (main.rs:573-601) and its results.
CategoryScan(category, bs) == [category |-> category, backends |-> bs]
category_scan_results(scan, order) ==
    generic_search(scan.backends, Catalog,
                   [id \in AppIds |-> category_score(scan.category, AppInfo(id))],
                   order)

\* App::search (main.rs:636-725): the commands in flight afterwards.
search(running, input, bs) ==
    LET regex == regex_build(input)
    IN  IF IsSome(regex)
        THEN Append(running, SearchScan(input, Unwrap(regex), bs))
        ELSE running

\* NavPage and NavPage::category (main.rs:236-302).
NavPages == {"Explore", "Create", "Develop", "Installed"}
category(page) ==
    CASE page = "Create" -> Some("Graphics")
      [] page = "Develop" -> Some("Development")
      [] OTHER -> None
\* The pages that show no category.
PlainPages == {page \in NavPages : ~IsSome(category(page))}

ui_frame == <<app_state, task_vars, scan_vars>>

\* Message::SearchActivate (main.rs:1083-1087)
SearchActivate ==
    /\ selected_opt' = None
    /\ search_active' = TRUE
    /\ last' = Msg("SearchActivate", TRUE)
    /\ UNCHANGED <<search_input, search_results, search_scans, category_results,
                   category_scans, explore_page_opt, nav_page, show_context>>

\* Message::SearchClear (main.rs:1088-1092)
SearchClear ==
    /\ search_active' = FALSE
    /\ search_input' = ""
    /\ search_results' = None
    /\ last' = Msg("SearchClear", TRUE)
    /\ UNCHANGED <<search_scans, category_results, category_scans,
                   explore_page_opt, selected_opt, nav_page, show_context>>

\* Message::SearchInput (main.rs:1093-1101)
SearchInput(input) ==
    /\ Len(search_scans) < MaxSearches
    /\ IF input # search_input
       THEN /\ search_input' = input
            /\ search_scans' =
                  IF input # "" THEN search(search_scans, input, backends)
                  ELSE search_scans
       ELSE UNCHANGED <<search_input, search_scans>>
    /\ last' = Msg("SearchInput", search_scans' # search_scans)
    /\ UNCHANGED <<search_active, search_results, category_results,
                   category_scans, explore_page_opt, selected_opt, nav_page,
                   show_context>>

\* Message::SearchSubmit (main.rs:1114-1118)
SearchSubmit ==
    /\ Len(search_scans) < MaxSearches
    /\ search_scans' =
          IF search_input # "" THEN search(search_scans, search_input, backends)
          ELSE search_scans
    /\ last' = Msg("SearchSubmit", search_scans' # search_scans)
    /\ UNCHANGED <<search_active, search_input, search_results,
                   category_results, category_scans, explore_page_opt,
                   selected_opt, nav_page, show_context>>

\* search_results after Message::SearchResults(input, results)
\* (main.rs:1103-1112).
store_results_always(stored, current, input, results) ==
    Some(<<input, results>>)
store_results(stored, current, input, results) ==
    IF input = current THEN Some(<<input, results>>) ELSE stored

\* Message::SearchResults (main.rs:1102-1113): the i-th search command in
\* flight delivers.
SearchResults(i, order) ==
    /\ i \in 1..Len(search_scans)
    /\ search_scans' = end_scan(search_scans, i)
    /\ search_results' =
          store_results(search_results, search_input, search_scans[i].input,
                        search_scan_results(search_scans[i], order))
    /\ last' = Msg("SearchResults", search_scans[i].input = search_input)
    /\ UNCHANGED <<search_active, search_input, category_results,
                   category_scans, explore_page_opt, selected_opt, nav_page,
                   show_context>>

\* Message::SelectSearchResult (main.rs:1215-1233)
SelectSearchResult(result_i) ==
    /\ LET found == IsSome(search_results)
                       /\ result_i < Len(Unwrap(search_results)[2])
       IN  /\ selected_opt' =
                 IF found
                 THEN LET result == Unwrap(search_results)[2][result_i + 1]
                      IN  Some([backend_name |-> result.backend_name,
                                id |-> result.id])
                 ELSE selected_opt
           /\ last' = Msg("SelectSearchResult", found)
    /\ UNCHANGED <<search_active, search_input, search_results, search_scans,
                   category_results, category_scans, explore_page_opt,
                   nav_page, show_context>>

\* Message::SelectNone (main.rs:1168-1170)
SelectNone ==
    /\ selected_opt' = None
    /\ last' = Msg("SelectNone", TRUE)
    /\ UNCHANGED <<search_active, search_input, search_results, search_scans,
                   category_results, category_scans, explore_page_opt,
                   nav_page, show_context>>

\* Message::ToggleContextPage (main.rs:1254-1262); Settings is the only page.
ToggleContextPage ==
    /\ show_context' = ~show_context
    /\ last' = Msg("ToggleContextPage", TRUE)
    /\ UNCHANGED <<search_active, search_input, search_results, search_scans,
                   category_results, category_scans, explore_page_opt,
                   selected_opt, nav_page>>

\* App::on_escape (main.rs:939-949)
OnEscape ==
    /\ IF show_context
       THEN /\ show_context' = FALSE
            /\ UNCHANGED <<search_active, search_results>>
       ELSE IF search_active
       THEN /\ search_active' = FALSE
            /\ search_results' = None
            /\ UNCHANGED show_context
       ELSE UNCHANGED <<show_context, search_active, search_results>>
    /\ last' = Msg("OnEscape", show_context \/ search_active)
    /\ UNCHANGED <<search_input, search_scans, category_results, category_scans,
                   explore_page_opt, selected_opt, nav_page>>

\* App::on_nav_select (main.rs:951-967)
OnNavSelect(page) ==
    /\ Len(category_scans) < MaxSearches
    /\ category_results' = None
    /\ explore_page_opt' = None
    /\ search_active' = FALSE
    /\ search_results' = None
    /\ selected_opt' = None
    /\ nav_page' = page
    /\ category_scans' =
          IF IsSome(category(page))
          THEN Append(category_scans,
                      CategoryScan(Unwrap(category(page)), backends))
          ELSE category_scans
    /\ last' = Msg("OnNavSelect", IsSome(category(page)))
    /\ UNCHANGED <<search_input, search_scans, show_context>>

\* Message::CategoryResults (main.rs:1013-1015): the i-th category command
\* in flight delivers.
CategoryResults(i, order) ==
    /\ i \in 1..Len(category_scans)
    /\ category_scans' = end_scan(category_scans, i)
    /\ category_results' =
          Some(<<category_scans[i].category,
                 category_scan_results(category_scans[i], order)>>)
    /\ last' = Msg("CategoryResults", TRUE)
    /\ UNCHANGED <<search_active, search_input, search_results, search_scans,
                   explore_page_opt, selected_opt, nav_page, show_context>>

NextSearch ==
    \/ Backends /\ UNCHANGED <<task_vars, call_vars, ui_vars>>
    \/ SearchActivate /\ UNCHANGED ui_frame
    \/ SearchClear /\ UNCHANGED ui_frame
    \/ \E input \in SearchInputs : SearchInput(input) /\ UNCHANGED ui_frame
    \/ SearchSubmit /\ UNCHANGED ui_frame
    \/ \E i \in 1..Len(search_scans), order \in IdOrders :
          SearchResults(i, order) /\ UNCHANGED ui_frame
    \/ SelectSearchResult(0) /\ UNCHANGED ui_frame
    \/ SelectNone /\ UNCHANGED ui_frame
    \/ ToggleContextPage /\ UNCHANGED ui_frame
    \/ OnEscape /\ UNCHANGED ui_frame
    \/ \E page \in PlainPages : OnNavSelect(page) /\ UNCHANGED ui_frame

SpecSearch == Init /\ [][NextSearch]_vars

\* The messages that call App::search.
SearchRequests == {"SearchInput", "SearchSubmit"}

(***************************************************************************)
(* C18: a search command in flight is stopped by nothing: it stays in      *)
(* flight until its own SearchResults(Q, r) is processed; and r is stored, *)
(* with Q, exactly when Q is the search input at that moment, the stored   *)
(* results being left as they are otherwise.                               *)
(***************************************************************************)
C18_StoredIffCurrent ==
    [][IF last'.type = "SearchResults"
       THEN \E i \in 1..Len(search_scans), order \in IdOrders :
               /\ search_scans' = end_scan(search_scans, i)
               /\ LET Q == search_scans[i].input
                      r == search_scan_results(search_scans[i], order)
                  IN  IF Q = search_input
                      THEN search_results' = Some(<<Q, r>>)
                      ELSE search_results' = search_results
       ELSE IsPrefix(search_scans, search_scans')]_vars

\* The results of an earlier search for "ba" arrived after the input had
\* become "foo" and were discarded: the results stored before are still
\* there, and the search for "foo" is still in flight.
C18_Witness ==
    /\ last = Msg("SearchResults", FALSE)
    /\ search_input = "foo"
    /\ IsSome(search_results)
    /\ Unwrap(search_results)[1] = "ba"
    /\ Unwrap(search_results)[2] # <<>>
    /\ \E i \in 1..Len(search_scans) : search_scans[i].input = "foo"

(***************************************************************************)
(* C19: a search request on an input that does not compile to a matcher    *)
(* starts no command and leaves the stored results in place, and no        *)
(* SearchResults is ever produced for that input.                          *)
(***************************************************************************)
C19_UncompilableIsNoOp ==
    /\ [](\A i \in 1..Len(search_scans) : search_scans[i].input # HugeInput)
    /\ [](IsSome(search_results) => Unwrap(search_results)[1] # HugeInput)
    /\ [][(last'.type \in SearchRequests /\ search_input' = HugeInput) =>
             /\ search_scans' = search_scans
             /\ search_results' = search_results]_vars

\* The input was changed to the uncompilable text while results were
\* stored: they are still stored and nothing is in flight.
C19_Witness ==
    /\ last = Msg("SearchInput", FALSE)
    /\ search_input = HugeInput
    /\ IsSome(search_results)
    /\ Unwrap(search_results)[2] # <<>>
    /\ search_scans = <<>>

(***************************************************************************)
(* The whole control loop: every message of App::update, the background    *)
(* tasks, and subscription() evaluated after each message.                 *)
(***************************************************************************)
NextApp ==
    \/ Handled(Backends) /\ UNCHANGED <<call_vars, ui_vars>>
    \/ Handled(DialogCancel) /\ UNCHANGED <<scan_vars, ui_vars>>
    \/ \E i \in 1..Len(installed_scans), resp \in ScanResponses :
          Handled(Installed(i, resp)) /\ UNCHANGED <<scan_vars, ui_vars>>
    \/ \E i \in 1..Len(updates_scans), resp \in ScanResponses :
          Handled(Updates(i, resp)) /\ UNCHANGED <<scan_vars, ui_vars>>
    \/ \E op \in OperationInputs :
          Handled(Operation(op)) /\ UNCHANGED <<scan_vars, ui_vars>>
    \/ \E id \in 0..(MaxOps - 1) :
          Deliver(id) /\ UNCHANGED <<scan_vars, ui_vars>>
    \/ \E id \in 0..(MaxOps - 1) :
          TaskStart(id) /\ UNCHANGED <<scan_vars, ui_vars>>
    \/ \E id \in 0..(MaxOps - 1) :
          TaskProgress(id) /\ UNCHANGED <<scan_vars, ui_vars>>
    \/ \E id \in 0..(MaxOps - 1), res \in OperationResults :
          TaskFinish(id, res) /\ UNCHANGED <<scan_vars, ui_vars>>
    \/ UNCHANGED <<app_state, scan_vars>> /\ Handled(SearchInput("foo"))
    \/ \E i \in 1..Len(search_scans), order \in IdOrders :
          UNCHANGED <<app_state, scan_vars>> /\ Handled(SearchResults(i, order))
    \/ UNCHANGED <<app_state, scan_vars>> /\ Handled(SelectSearchResult(0))
    \/ UNCHANGED <<app_state, scan_vars>> /\ Handled(OnNavSelect("Installed"))

SpecApp == Init /\ [][NextApp]_vars

(***************************************************************************)
(* C16: nothing cancels an operation.  An id leaves the pending table only *)
(* in the step that processes its own PendingComplete or PendingError; no  *)
(* other step removes an entry or replaces its operation; and an id that   *)
(* has left the table is never in it again.                                *)
(***************************************************************************)
C16_NoCancellation ==
    [][/\ \A id \in DOMAIN pending_operations :
             IF id \in DOMAIN pending_operations'
             THEN pending_operations'[id].op = pending_operations[id].op
             ELSE /\ last'.type \in TerminalEvents
                  /\ id \in DOMAIN delivered'
                  /\ delivered'[id] =
                        (IF id \in DOMAIN delivered THEN delivered[id] ELSE <<>>)
                        \o <<last'.type>>
                  /\ pending_operations' = Without(pending_operations, id)
       /\ \A id \in EventIds :
             id \notin DOMAIN pending_operations =>
                id \notin DOMAIN pending_operations']_vars

\* Operation 0 is still pending after operation 1 failed and its dialog was
\* dismissed, the installed list arrived, the Installed page was opened, a
\* search delivered and one of its results was selected.
C16_Witness ==
    /\ 0 \in DOMAIN pending_operations
    /\ 1 \in DOMAIN failed_operations
    /\ dismissed = 1
    /\ IsSome(installed)
    /\ nav_page = "Installed"
    /\ IsSome(search_results)
    /\ IsSome(selected_opt)

(***************************************************************************)
(* C21: generic_search returns one result for each (backend, cache, app)   *)
(* whose score is Some, carrying that score, and nothing else: an app held *)
(* by two backends or by two caches appears once for each.                 *)
(***************************************************************************)
C21_OneResultPerScoredEntry ==
    IsSome(scan_results) =>
       LET results == Unwrap(scan_results)
       IN  /\ \A b \in BackendNames, id \in AppIds :
                 Hits(results, b, id) =
                    (IF IsSome(scan_score[id]) THEN Holders(b, id) ELSE 0)
           /\ \A i \in 1..Len(results) :
                 /\ results[i].backend_name \in BackendNames
                 /\ results[i].id \in AppIds
                 /\ results[i].weight = Unwrap(scan_score[results[i].id])
                 /\ results[i].info = AppInfo(results[i].id)

\* One call in which an app is held by two caches of flatpak and by one of
\* packagekit, and appears three times, while an app without score, held by
\* a cache, does not appear.
C21_Witness ==
    /\ IsSome(scan_results)
    /\ \E id \in AppIds :
          /\ Hits(Unwrap(scan_results), "flatpak", id) = 2
          /\ Hits(Unwrap(scan_results), "packagekit", id) = 1
    /\ \E id \in AppIds :
          /\ ~IsSome(scan_score[id])
          /\ Holders("flatpak", id) > 0

----------------------------------------------------------------------------
\* One call of the closure App::search passes to generic_search.

\* The texts of the fields and of the queries, and the download counts.
Texts == {"", "ba", "bar", "baz", "foo", "foobar"}
Queries == {"ba", "bar", "foo"}
DownloadCounts == {0, 2 ^ TierShift - 1}

InitScore ==
    /\ InitApp
    /\ NoScan
    /\ score_query \in Queries
    /\ score_info \in [name : Texts, summary : Texts, description : Texts,
                        categories : {{}}, monthly_downloads : DownloadCounts]
    /\ score_result = None
    /\ NoRank

\* The closure runs on one AppInfo (main.rs:654-710) with the matcher built
\* from the query (main.rs:638-648).
SearchScore ==
    /\ score_result = None
    /\ IsSome(regex_build(score_query))
    /\ score_result' =
           Some(search_score(Unwrap(regex_build(score_query)), score_info))
    /\ UNCHANGED <<app_vars, task_vars, explore_vars, scan_backends,
                   scan_catalog, scan_score, scan_results, scan_request,
                   score_query, score_info, rank_vars>>

NextScore == SearchScore

SpecScore == InitScore /\ [][NextScore]_vars

\* Property vocabulary: literal containment of a query in a text.
StartsWith(text, query) ==
    Len(query) <= Len(text) /\ SubSeq(text, 1, Len(query)) = query
Contains(text, query) ==
    \E k \in 0..(Len(text) - Len(query)) :
       SubSeq(text, k + 1, k + Len(query)) = query
\* The tier of a field relative to the first tier of that field.
FieldTier(text, query) ==
    IF text = query THEN 0 ELSE IF StartsWith(text, query) THEN 1 ELSE 2
\* The tier of the best match, or -1 when no field contains the query.
BestTier(query, info) ==
    LET name == NameOf(info.name)
        summary == NameOf(info.summary)
        description == NameOf(info.description)
    IN  IF Contains(name, query) THEN FieldTier(name, query)
        ELSE IF Contains(summary, query) THEN 3 + FieldTier(summary, query)
        ELSE IF Contains(description, query)
        THEN 6 + FieldTier(description, query)
        ELSE -1

\* C22: the score of an application is the packed weight of the tier of its
\* best match -- 0, 1, 2 as the name equals, starts with or contains the
\* query, else 3, 4, 5 by the same test on the summary, else 6, 7, 8 by the
\* same test on the description -- and the application is excluded exactly
\* when no field contains the query.
C22_TierOfBestMatch ==
    IsSome(score_result) =>
       LET best == BestTier(NameOf(score_query), score_info)
       IN  Unwrap(score_result) =
              (IF best = -1 THEN None
               ELSE Some(best * (2 ^ TierShift)
                            - score_info.monthly_downloads))

----------------------------------------------------------------------------
\* The packed weights of the hits of one search, and their order.

\* The tiers the closure passes to stats_weight (main.rs:666-703).
Tiers == 0..8
\* The download counts that fit in the bits below the tier, and the first
\* that does not.
FittingDownloads == 0..(2 ^ TierShift - 1)
Downloads == FittingDownloads \cup {2 ^ TierShift}
HitNames == {"bar", "foo"}
\* A matching catalog entry of a backend and the tier of its best match.
SearchHits ==
    [backend_name : BackendNames, name : HitNames, tier : Tiers,
     monthly_downloads : Downloads]

\* The SearchResult the scan builds for a hit (main.rs:545-553), weighted by
\* the search closure (main.rs:656-659).
hit_result(hit) ==
    LET info == [name |-> hit.name, summary |-> "", description |-> "",
                 categories |-> {},
                 monthly_downloads |-> hit.monthly_downloads]
    IN  [backend_name |-> hit.backend_name, id |-> hit.name, info |-> info,
         weight |-> stats_weight(hit.tier, info)]

InitRank ==
    /\ InitApp
    /\ NoScan
    /\ NoScore
    /\ rank_hits \in [1..2 -> SearchHits]
    /\ rank_results = None

\* The hits are weighted as they are collected and the list is sorted
\* (main.rs:541-569).
RankHits ==
    /\ rank_results = None
    /\ rank_results' =
           Some(results_sort_by([i \in 1..Len(rank_hits) |->
                                   hit_result(rank_hits[i])]))
    /\ UNCHANGED <<app_vars, task_vars, explore_vars, scan_backends,
                   scan_catalog, scan_score, scan_results, scan_request,
                   score_vars, rank_hits>>

NextRank == RankHits

SpecRank == InitRank /\ [][NextRank]_vars

\* Property vocabulary: hit i of the scan is sorted before hit j.
SortsBefore(i, j) ==
    /\ Unwrap(rank_results)[1] = hit_result(rank_hits[i])
    /\ Unwrap(rank_results)[2] = hit_result(rank_hits[j])
    /\ hit_result(rank_hits[i]) # hit_result(rank_hits[j])

\* C23: of two hits whose download counts fit in the bits below the tier,
\* the hit of the lower tier has the strictly smaller packed weight and is
\* sorted first, whatever the two download counts.
C23_LowerTierFirst ==
    IsSome(rank_results) =>
       \A i, j \in 1..2 :
          /\ rank_hits[i].tier < rank_hits[j].tier
          /\ rank_hits[i].monthly_downloads \in FittingDownloads
          /\ rank_hits[j].monthly_downloads \in FittingDownloads
          => /\ hit_result(rank_hits[i]).weight < hit_result(rank_hits[j]).weight
             /\ SortsBefore(i, j)

\* The lower tier is collected second, has no downloads and the later name;
\* the higher tier has the most downloads that fit.
C23_Witness ==
    /\ IsSome(rank_results)
    /\ rank_hits[2].tier = 1 /\ rank_hits[1].tier = 2
    /\ rank_hits[2].monthly_downloads = 0
    /\ rank_hits[1].monthly_downloads = 2 ^ TierShift - 1
    /\ rank_hits[2].name = "foo" /\ rank_hits[1].name = "bar"
    /\ SortsBefore(2, 1)

\* C24: of two hits of one tier, the hit with strictly more downloads is
\* sorted first, whatever their names and backends; with equal downloads
\* the order is that of the names, then of the backend names.
C24_MoreDownloadsFirst ==
    IsSome(rank_results) =>
       \A i, j \in 1..2 :
          rank_hits[i].tier = rank_hits[j].tier =>
             /\ rank_hits[i].monthly_downloads > rank_hits[j].monthly_downloads
                => SortsBefore(i, j)
             /\ /\ rank_hits[i].monthly_downloads = rank_hits[j].monthly_downloads
                /\ \/ LexLess(NameOf(rank_hits[i].name), NameOf(rank_hits[j].name))
                   \/ /\ rank_hits[i].name = rank_hits[j].name
                      /\ LexLess(NameOf(rank_hits[i].backend_name),
                                 NameOf(rank_hits[j].backend_name))
                => SortsBefore(i, j)

\* One tier, two backends: the hit with more downloads is collected second
\* and has the later name and the later backend name.
C24_Witness ==
    /\ IsSome(rank_results)
    /\ rank_hits[1].tier = 4 /\ rank_hits[2].tier = 4
    /\ rank_hits[1].monthly_downloads = 1 /\ rank_hits[2].monthly_downloads = 2
    /\ rank_hits[1].name = "bar" /\ rank_hits[2].name = "foo"
    /\ rank_hits[1].backend_name = "flatpak"
    /\ rank_hits[2].backend_name = "packagekit"
    /\ SortsBefore(2, 1)

----------------------------------------------------------------------------
\* The scans of the category pages and of the explore pages.

\* const EDITORS_CHOICE (main.rs:57-69)
EDITORS_CHOICE ==
    <<"com.slack.Slack", "org.telegram.desktop", "org.gnome.meld",
      "com.valvesoftware.Steam", "net.lutris.Lutris", "com.mattermost.Desktop",
      "com.visualstudio.code", "com.spotify.Client", "virt-manager",
      "org.signal.Signal", "org.chromium.Chromium">>

\* An identifier as the texts between its dots.
IdParts(id) ==
    CASE id = "com.slack.Slack" -> <<"com", "slack", "Slack">>
      [] id = "com.slack.Slack.desktop" -> <<"com", "slack", "Slack", "desktop">>
      [] id = "org.telegram" -> <<"org", "telegram">>
      [] id = "org.telegram.desktop" -> <<"org", "telegram", "desktop">>
      [] id = "org.gnome.meld" -> <<"org", "gnome", "meld">>
      [] id = "com.valvesoftware.Steam" -> <<"com", "valvesoftware", "Steam">>
      [] id = "net.lutris.Lutris" -> <<"net", "lutris", "Lutris">>
      [] id = "com.mattermost.Desktop" -> <<"com", "mattermost", "Desktop">>
      [] id = "com.visualstudio.code" -> <<"com", "visualstudio", "code">>
      [] id = "com.spotify.Client" -> <<"com", "spotify", "Client">>
      [] id = "org.signal.Signal" -> <<"org", "signal", "Signal">>
      [] id = "org.chromium.Chromium" -> <<"org", "chromium", "Chromium">>
      [] OTHER -> <<id>>

\* str::trim_end_matches(".desktop") (main.rs:118): every trailing
\* ".desktop" is removed.
RECURSIVE trim_end_matches(_)
trim_end_matches(parts) ==
    IF Len(parts) >= 2 /\ parts[Len(parts)] = "desktop"
    THEN trim_end_matches(SubSeq(parts, 1, Len(parts) - 1))
    ELSE parts

\* fn match_id (main.rs:117-119)
match_id_exact(a, b) == a = b
match_id(a, b) ==
    trim_end_matches(IdParts(a)) = trim_end_matches(IdParts(b))

\* Iterator::position (main.rs:612-614): the index, from 0, of the first
\* entry of the list that matches id.
position(list, id) ==
    LET found == {k \in 1..Len(list) : match_id(list[k], id)}
    IN  IF found = {} THEN None
        ELSE Some((CHOOSE k \in found : \A m \in found : k <= m) - 1)

\* enum ExplorePage (main.rs:322-327)
ExplorePages == {"EditorsChoice", "PopularApps", "NewApps", "RecentlyUpdated"}

\* The closure App::explore_results passes (main.rs:609-619).
explore_score(explore_page, id, info) ==
    CASE explore_page = "EditorsChoice" -> position(EDITORS_CHOICE, id)
      [] explore_page = "PopularApps" -> Some(0 - info.monthly_downloads)
      [] OTHER -> None

\* The results an explore command computes.
explore_scan_results(scan, catalog, ids, order) ==
    generic_search(scan.backends, catalog,
                   [id \in ids |-> explore_score(scan.explore_page, id,
                                                 AppInfo(id))],
                   order)

\* Message::ExplorePage (main.rs:1027-1029)
ExplorePage(page_opt) ==
    /\ explore_page_opt' = page_opt
    /\ last' = Msg("ExplorePage", TRUE)
    /\ UNCHANGED <<search_active, search_input, search_results, search_scans,
                   category_results, category_scans, explore_vars,
                   selected_opt, nav_page, show_context>>

\* Message::ExploreResults (main.rs:1030-1032): the i-th explore command in
\* flight delivers.
ExploreResults(i, order) ==
    /\ i \in 1..Len(explore_scans)
    /\ explore_scans' = end_scan(explore_scans, i)
    /\ explore_results' =
          insert(explore_results, explore_scans[i].explore_page,
                 explore_scan_results(explore_scans[i], Catalog, AppIds, order))
    /\ last' = Msg("ExploreResults", TRUE)
    /\ UNCHANGED <<search_active, search_input, search_results, search_scans,
                   category_results, category_scans, explore_page_opt,
                   selected_opt, nav_page, show_context>>

\* The identifiers of the catalogs of a page scan, and two orders in which
\* par_iter may hand them to the closure.
PageIds ==
    {"com.slack.Slack.desktop", "org.telegram", "org.gnome.meld", "bar", "foo"}
PageOrders ==
    {<<"bar", "foo", "org.gnome.meld", "org.telegram", "com.slack.Slack.desktop">>,
     <<"com.slack.Slack.desktop", "org.telegram", "org.gnome.meld", "foo", "bar">>}
PageCacheLists ==
    {<<>>, <<PageIds, PageIds>>} \cup {<<c>> : c \in SUBSET PageIds}
\* The categories and the explore pages a scan is asked for.
PageCategories == {"Development", "Network", "Game"}
PageRequests ==
    {[kind |-> "category", page |-> c] : c \in PageCategories}
       \cup {[kind |-> "explore", page |-> p] : p \in ExplorePages}
\* The closure of a request, as the function generic_search applies.
request_score(request) ==
    [id \in PageIds |->
        IF request.kind = "category"
        THEN category_score(request.page, AppInfo(id))
        ELSE explore_score(request.page, id, AppInfo(id))]

InitPage ==
    /\ InitApp
    /\ scan_request \in {Some(r) : r \in PageRequests}
    /\ scan_backends \in SUBSET BackendNames
    /\ scan_catalog \in [BackendNames -> PageCacheLists]
    /\ scan_score = request_score(Unwrap(scan_request))
    /\ scan_results = None
    /\ NoScore
    /\ NoRank

NextPage == \E order \in PageOrders : GenericSearch(order)

SpecPage == InitPage /\ [][NextPage]_vars

\* Property vocabulary: the request of the call under way, and whether the
\* returned list holds, once per cache that holds it, every identifier of
\* the set ids and nothing else.
Request == Unwrap(scan_request)
ReturnsExactly(ids) ==
    \A b \in BackendNames, id \in PageIds :
       Hits(Unwrap(scan_results), b, id) =
          (IF id \in ids THEN Holders(b, id) ELSE 0)
\* Every result carries the weight the function gives its identifier.
WeighedBy(weigh(_)) ==
    \A i \in 1..Len(Unwrap(scan_results)) :
       Unwrap(scan_results)[i].weight = weigh(Unwrap(scan_results)[i].id)

\* C25: a category scan returns exactly the catalog entries whose category
\* set contains the category id, each with the weight -monthly_downloads,
\* and no result comes after one with fewer monthly downloads.
C25_CategoryScan ==
    IsSome(scan_results) /\ IsSome(scan_request) /\ Request.kind = "category" =>
       LET results == Unwrap(scan_results)
           minus_downloads(id) == 0 - AppInfo(id).monthly_downloads
       IN  /\ ReturnsExactly({id \in PageIds :
                                 Request.page \in AppInfo(id).categories})
           /\ WeighedBy(minus_downloads)
           /\ \A i, j \in 1..Len(results) :
                  i < j => results[i].info.monthly_downloads
                              >= results[j].info.monthly_downloads

\* A scan of the Development category of both backends returned entries
\* with two download counts and left an entry of another category out.
C25_Witness ==
    /\ IsSome(scan_results) /\ IsSome(scan_request)
    /\ Request = [kind |-> "category", page |-> "Development"]
    /\ scan_backends = BackendNames
    /\ scan_catalog["flatpak"] = <<{"foo", "com.slack.Slack.desktop"}>>
    /\ scan_catalog["packagekit"] = <<{"bar", "org.telegram"}>>
    /\ Len(Unwrap(scan_results)) = 3
    /\ Unwrap(scan_results)[3].id = "foo"

\* Property vocabulary: the 0-based positions at which the editorial list
\* holds id itself, and at which it holds id up to trailing ".desktop".
ListedAt(id) == {k \in 0..(Len(EDITORS_CHOICE) - 1) : EDITORS_CHOICE[k + 1] = id}
MatchedAt(id) ==
    {k \in 0..(Len(EDITORS_CHOICE) - 1) :
        trim_end_matches(IdParts(EDITORS_CHOICE[k + 1]))
           = trim_end_matches(IdParts(id))}
Least(S) == CHOOSE k \in S : \A m \in S : k <= m
\* The parts of the claim about the other explore pages: the popular-apps
\* scan returns every entry with the weight -monthly_downloads, the scans
\* of the remaining pages return nothing.
PopularAndOtherPages ==
    LET minus_downloads(id) == 0 - AppInfo(id).monthly_downloads
    IN  /\ Request.page = "PopularApps" =>
              ReturnsExactly(PageIds) /\ WeighedBy(minus_downloads)
        /\ Request.page \notin {"EditorsChoice", "PopularApps"} =>
              Unwrap(scan_results) = <<>>
\* The results are in the order of their weights.
InWeightOrder ==
    \A i, j \in 1..Len(Unwrap(scan_results)) :
       i < j => Unwrap(scan_results)[i].weight <= Unwrap(scan_results)[j].weight

\* C26, as stated: the curated-picks scan returns exactly the entries whose
\* identifier is in the editorial list, weighted by its position there; the
\* popular-apps scan returns every entry weighted -monthly_downloads; the
\* scans of the other explore pages return nothing.
C26_ExploreScanListed ==
    IsSome(scan_results) /\ IsSome(scan_request) /\ Request.kind = "explore" =>
       LET listed_at(id) == Least(ListedAt(id))
       IN  /\ Request.page = "EditorsChoice" =>
                 /\ ReturnsExactly({id \in PageIds : ListedAt(id) # {}})
                 /\ WeighedBy(listed_at)
                 /\ InWeightOrder
           /\ PopularAndOtherPages

\* C26, amended: the curated-picks scan returns exactly the entries whose
\* identifier equals an entry of the editorial list once every trailing
\* ".desktop" is removed from both, weighted by the position of the first
\* such entry, hence in editorial order; the rest is as stated.
C26_ExploreScanMatched ==
    IsSome(scan_results) /\ IsSome(scan_request) /\ Request.kind = "explore" =>
       LET matched_at(id) == Least(MatchedAt(id))
       IN  /\ Request.page = "EditorsChoice" =>
                 /\ ReturnsExactly({id \in PageIds : MatchedAt(id) # {}})
                 /\ WeighedBy(matched_at)
                 /\ InWeightOrder
           /\ PopularAndOtherPages

\* A curated-picks scan of both backends returned, in editorial order, an
\* entry whose identifier ends in ".desktop", an entry the list names with
\* that ending and an entry the list names as it is, and left out the
\* entries the list does not name.
C26_Witness ==
    /\ IsSome(scan_results) /\ IsSome(scan_request)
    /\ Request = [kind |-> "explore", page |-> "EditorsChoice"]
    /\ scan_backends = BackendNames
    /\ scan_catalog["flatpak"] = <<{"org.gnome.meld", "bar"}>>
    /\ scan_catalog["packagekit"] = <<PageIds>>
    /\ Len(Unwrap(scan_results)) = 4
    /\ Unwrap(scan_results)[1].id = "com.slack.Slack.desktop"
    /\ Unwrap(scan_results)[2].id = "org.telegram"
    /\ Unwrap(scan_results)[3].backend_name = "flatpak"
    /\ Unwrap(scan_results)[4].id = "org.gnome.meld"

----------------------------------------------------------------------------
\* The enumerations when backends may fail.

\* What the backends of an enumeration answer: each fails or returns one
\* of two lists.
EnumPackageIds == {"bar", "foo"}
EnumResponseLists == {<<Package("foo")>>, <<Package("foo"), Package("bar")>>}
EnumResponses ==
    [BackendNames ->
        {[ok |-> FALSE, packages |-> <<>>]}
           \cup {[ok |-> TRUE, packages |-> l] : l \in EnumResponseLists}]

NextEnumerate ==
    \/ Backends /\ UNCHANGED <<task_vars, call_vars, ui_vars>>
    \/ \E op \in OperationInputs :
          Operation(op) /\ UNCHANGED <<task_vars, scan_vars, ui_vars>>
    \/ \E id \in EventIds :
          PendingComplete(id) /\ UNCHANGED <<task_vars, scan_vars, ui_vars>>
    \/ \E i \in 1..Len(installed_scans), resp \in EnumResponses :
          Installed(i, resp) /\ UNCHANGED <<task_vars, scan_vars, ui_vars>>
    \/ \E i \in 1..Len(updates_scans), resp \in EnumResponses :
          Updates(i, resp) /\ UNCHANGED <<task_vars, scan_vars, ui_vars>>

SpecEnumerate == Init /\ [][NextEnumerate]_vars

\* Property vocabulary: how often a list holds an entry, and a list that
\* holds the packages of the answers of the backends of bs that succeeded,
\* each as often as its backend returned it, and nothing else.
Count(list, entry) == Cardinality({k \in 1..Len(list) : list[k] = entry})
HoldsTheSuccesses(list, bs, resp) ==
    /\ \A k \in 1..Len(list) :
          /\ list[k].backend_name \in BackendNames
          /\ list[k].package \in {Package(id) : id \in EnumPackageIds}
    /\ \A b \in BackendNames, id \in EnumPackageIds :
          Count(list, [backend_name |-> b, package |-> Package(id)]) =
             (IF b \in bs /\ resp[b].ok
              THEN Count(resp[b].packages, Package(id))
              ELSE 0)

\* C27: whichever backends fail, the Installed message of an enumeration
\* stores a list, and the list holds every package of every backend whose
\* installed() call succeeded and no package of a backend whose call
\* failed; likewise the Updates message and the updates() calls.
C27_FailingBackendIsEmpty ==
    [][\A resp \in EnumResponses :
          /\ \A i \in 1..Len(installed_scans) :
                Installed(i, resp) =>
                   /\ IsSome(installed')
                   /\ HoldsTheSuccesses(Unwrap(installed'),
                                        installed_scans[i].backends, resp)
          /\ \A i \in 1..Len(updates_scans) :
                Updates(i, resp) =>
                   /\ IsSome(updates')
                   /\ HoldsTheSuccesses(Unwrap(updates'),
                                        updates_scans[i].backends, resp)]_vars

\* An enumeration of both backends delivered the two packages of
\* packagekit and nothing of flatpak: flatpak's call failed, since every
\* successful call returns a package.
C27_Witness ==
    /\ last.type = "Installed"
    /\ backends = BackendNames
    /\ installed =
          Some(<<[backend_name |-> "packagekit", package |-> Package("bar")],
                 [backend_name |-> "packagekit", package |-> Package("foo")]>>)

----------------------------------------------------------------------------
\* The control loop with the tasks, the dialog and messages of the pages.

NextWriters ==
    \/ NextTasks
    \/ Handled(DialogCancel) /\ UNCHANGED <<scan_vars, ui_vars>>
    \/ UNCHANGED <<app_state, scan_vars>> /\ Handled(SearchClear)
    \/ UNCHANGED <<app_state, scan_vars>> /\ Handled(SelectNone)
    \/ UNCHANGED <<app_state, scan_vars>> /\ Handled(OnEscape)
    \/ UNCHANGED <<app_state, scan_vars>> /\ Handled(ExplorePage(None))
    \/ \E i \in 1..Len(explore_scans), order \in IdOrders :
          UNCHANGED <<app_state, call_vars>> /\ Handled(ExploreResults(i, order))

SpecWriters == Init /\ [][NextWriters]_vars

\* Property vocabulary: a step of a background task.
TaskStep ==
    \E id \in 0..(MaxOps - 1) :
       \/ TaskStart(id)
       \/ TaskProgress(id)
       \/ \E res \in OperationResults : TaskFinish(id, res)

\* C28: no step of a task changes the pending table, the failed table, the
\* id counter, the awaiting-refresh lists or the dialog queue; the tables
\* and the counter change only in the handlers of Operation, UpdateAll,
\* PendingProgress, PendingComplete and PendingError, the awaiting-refresh
\* lists only in those of PendingComplete, Installed and Updates, the
\* dialog queue only in those of PendingError and DialogCancel.
C28_SingleWriter ==
    [][/\ TaskStep => UNCHANGED <<tables, waiting, dialog_pages>>
       /\ tables' # tables =>
             last'.type \in {"Operation", "UpdateAll", "PendingProgress",
                             "PendingComplete", "PendingError"}
       /\ waiting' # waiting =>
             last'.type \in {"PendingComplete", "Installed", "Updates"}
       /\ dialog_pages' # dialog_pages =>
             last'.type \in {"PendingError", "DialogCancel"}]_vars

\* A dialog was dismissed while an operation that completed still awaits
\* its refresh and the failed one is still recorded.
C28_Witness ==
    /\ last.type = "DialogCancel" /\ last.hit
    /\ waiting_installed # <<>>
    /\ failed_operations # EmptyTable
    /\ dialog_pages = <<>>

----------------------------------------------------------------------------
----------------------------------------------------------------------------
\* The details view of the selected package (main.rs:1366-1481).

\* struct Selected (main.rs:441-448) as far as the view compares it.
Selected(backend_name, package) ==
    [backend_name |-> backend_name, id |-> package.id,
     source_id |-> package.source_id]

\* The test of the four loops of the view (main.rs:1375-1377, 1386-1388,
\* 1398-1400, 1414-1416).
same_package(backend_name, source_id, package_id, selected) ==
    /\ backend_name = selected.backend_name
    /\ source_id = selected.source_id
    /\ match_id(package_id, selected.id)

\* waiting_refresh (main.rs:1369-1382)
waiting_refresh_installed(selected) ==
    \E k \in 1..Len(waiting_installed) :
       same_package(waiting_installed[k][1], waiting_installed[k][2],
                    waiting_installed[k][3], selected)
waiting_refresh(selected) ==
    LET both == waiting_installed \o waiting_updates
    IN  \E k \in 1..Len(both) :
           same_package(both[k][1], both[k][2], both[k][3], selected)

\* is_installed (main.rs:1383-1394)
is_installed(selected) ==
    /\ IsSome(installed)
    /\ \E k \in 1..Len(Unwrap(installed)) :
          same_package(Unwrap(installed)[k].backend_name,
                       Unwrap(installed)[k].package.source_id,
                       Unwrap(installed)[k].package.id, selected)

\* update_opt (main.rs:1395-1411): the Update operation on the first
\* matching entry of the updates list.
update_opt(selected) ==
    LET list == IF IsSome(updates) THEN Unwrap(updates) ELSE <<>>
        found == {k \in 1..Len(list) :
                     same_package(list[k].backend_name,
                                  list[k].package.source_id,
                                  list[k].package.id, selected)}
    IN  IF found = {} THEN None
        ELSE LET k == CHOOSE m \in found : \A n \in found : m <= n
             IN  Some([kind |-> "Update",
                       backend_name |-> list[k].backend_name,
                       package_id |-> list[k].package.id,
                       source_id |-> list[k].package.source_id])

\* progress_opt (main.rs:1412-1421): the progress of the first matching
\* pending operation.
progress_opt_never(selected) == None
progress_opt(selected) ==
    LET found == {id \in DOMAIN pending_operations :
                     same_package(pending_operations[id].op.backend_name,
                                  pending_operations[id].op.source_id,
                                  pending_operations[id].op.package_id,
                                  selected)}
    IN  IF found = {} THEN None
        ELSE Some(pending_operations[
                     CHOOSE m \in found : \A n \in found : m <= n].progress)

\* The operations of the buttons the view shows (main.rs:1432-1481); the
\* progress bar and the Open button carry none.
buttons(selected) ==
    LET own(kind) == [kind |-> kind, backend_name |-> selected.backend_name,
                      package_id |-> selected.id,
                      source_id |-> selected.source_id]
    IN  IF IsSome(progress_opt(selected)) THEN <<>>
        ELSE IF waiting_refresh(selected) THEN <<>>
        ELSE IF is_installed(selected)
        THEN update_opt(selected)
                \o (IF selected.id # SYSTEM_ID THEN <<own("Uninstall")>>
                    ELSE <<>>)
        ELSE <<own("Install")>>

\* Message::SelectInstalled (main.rs:1119-1144)
SelectInstalled(installed_i) ==
    /\ LET found == IsSome(installed) /\ installed_i < Len(Unwrap(installed))
       IN  /\ selected_opt' =
                 IF found
                 THEN Some(Selected(
                         Unwrap(installed)[installed_i + 1].backend_name,
                         Unwrap(installed)[installed_i + 1].package))
                 ELSE selected_opt
           /\ last' = Msg("SelectInstalled", found)
    /\ UNCHANGED <<search_active, search_input, search_results, search_scans,
                   category_results, category_scans, explore_page_opt,
                   nav_page, show_context>>

\* Message::SelectUpdates (main.rs:1145-1167)
SelectUpdates(updates_i) ==
    /\ LET found == IsSome(updates) /\ updates_i < Len(Unwrap(updates))
       IN  /\ selected_opt' =
                 IF found
                 THEN Some(Selected(Unwrap(updates)[updates_i + 1].backend_name,
                                    Unwrap(updates)[updates_i + 1].package))
                 ELSE selected_opt
           /\ last' = Msg("SelectUpdates", found)
    /\ UNCHANGED <<search_active, search_input, search_results, search_scans,
                   category_results, category_scans, explore_page_opt,
                   nav_page, show_context>>

\* A button of the details view is pressed: the control loop gets the
\* Operation message the view attached to it.
DetailsButton(k) ==
    /\ IsSome(selected_opt)
    /\ k \in 1..Len(buttons(Unwrap(selected_opt)))
    /\ Operation(buttons(Unwrap(selected_opt))[k])

\* What the backends answer in this specification: flatpak has foo
\* installed or not, packagekit has the system package and bar.
DetailResponses ==
    {[b \in BackendNames |->
         [ok |-> TRUE,
          packages |-> IF b = "flatpak" THEN l
                       ELSE <<Package(SYSTEM_ID), Package("bar")>>]] :
       l \in {<<>>, <<Package("foo")>>}}

NextDetails ==
    \/ Backends /\ UNCHANGED <<task_vars, call_vars, ui_vars>>
    \/ \E i \in 1..Len(installed_scans), resp \in DetailResponses :
          Installed(i, resp) /\ UNCHANGED <<task_vars, scan_vars, ui_vars>>
    \/ \E i \in 1..Len(updates_scans), resp \in DetailResponses :
          Updates(i, resp) /\ UNCHANGED <<task_vars, scan_vars, ui_vars>>
    \/ \E i \in 0..2 : SelectInstalled(i) /\ UNCHANGED ui_frame
    \/ \E i \in 0..2 : SelectUpdates(i) /\ UNCHANGED ui_frame
    \/ SelectNone /\ UNCHANGED ui_frame
    \/ \E k \in 1..2 :
          DetailsButton(k) /\ UNCHANGED <<task_vars, scan_vars, ui_vars>>
    \/ \E id \in EventIds :
          PendingComplete(id) /\ UNCHANGED <<task_vars, scan_vars, ui_vars>>
    \/ \E id \in EventIds :
          PendingError(id, "permission denied")
             /\ UNCHANGED <<task_vars, scan_vars, ui_vars>>

SpecDetails == Init /\ [][NextDetails]_vars

\* Property vocabulary: the package of an operation or of the selection,
\* as (backend, source, package id), and the packages with an operation
\* pending or awaiting refresh.
PackageOf(x) ==
    <<x.backend_name, x.source_id,
      IF "package_id" \in DOMAIN x THEN x.package_id ELSE x.id>>
Busy ==
    {PackageOf(pending_operations[id].op) : id \in DOMAIN pending_operations}
       \cup {waiting_installed[k] : k \in 1..Len(waiting_installed)}
       \cup {waiting_updates[k] : k \in 1..Len(waiting_updates)}

\* C30: the details view shows an Install, Uninstall or Update button only
\* if no pending operation is on the selected package (same backend,
\* source and package id) and the package is in neither awaiting-refresh
\* list; and a press of a button never requests an operation on a package
\* that has one pending or awaits its refresh.
C30_NoButtonWhileBusy ==
    /\ [](IsSome(selected_opt) /\ buttons(Unwrap(selected_opt)) # <<>>
             => PackageOf(Unwrap(selected_opt)) \notin Busy)
    /\ [][\A k \in 1..2 :
             DetailsButton(k) =>
                PackageOf(buttons(Unwrap(selected_opt))[k]) \notin Busy]_vars

\* The view shows the Update and the Uninstall button of the selected
\* package while an operation on another package is pending and a
\* completed one awaits its refresh.
C30_Witness ==
    /\ IsSome(selected_opt)
    /\ Len(buttons(Unwrap(selected_opt))) = 2
    /\ pending_operations # EmptyTable
    /\ waiting_installed # <<>>

----------------------------------------------------------------------------
\* The search bar: the messages of the header widgets, the key and the
\* navigation bar, and the search commands.

\* App::header_start (main.rs:1339-1353): the messages its widget can send.
header_start ==
    IF search_active THEN {"SearchClear", "SearchInput", "SearchSubmit"}
    ELSE {"SearchActivate"}

NextSearchBar ==
    \/ Backends /\ UNCHANGED <<task_vars, call_vars, ui_vars>>
    \/ "SearchActivate" \in header_start /\ SearchActivate /\ UNCHANGED ui_frame
    \/ "SearchClear" \in header_start /\ SearchClear /\ UNCHANGED ui_frame
    \/ \E input \in SearchInputs :
          "SearchInput" \in header_start /\ SearchInput(input)
             /\ UNCHANGED ui_frame
    \/ "SearchSubmit" \in header_start /\ SearchSubmit /\ UNCHANGED ui_frame
    \/ \E i \in 1..Len(search_scans), order \in IdOrders :
          SearchResults(i, order) /\ UNCHANGED ui_frame
    \/ OnEscape /\ UNCHANGED ui_frame
    \/ \E page \in PlainPages : OnNavSelect(page) /\ UNCHANGED ui_frame

SpecSearchBar == Init /\ [][NextSearchBar]_vars

\* C31: whenever search is not active, no search result set is stored,
\* whatever the order in which Escape, a navigation, SearchClear and the
\* results of the commands in flight arrive.
C31_NoResultsWhileInactive == ~search_active => search_results = None

----------------------------------------------------------------------------
\* The category pages: navigation and the category commands.

NextCategory ==
    \/ Backends /\ UNCHANGED <<task_vars, call_vars, ui_vars>>
    \/ \E page \in NavPages : OnNavSelect(page) /\ UNCHANGED ui_frame
    \/ \E page_opt \in {None, Some("PopularApps")} :
          ExplorePage(page_opt) /\ UNCHANGED ui_frame
    \/ \E i \in 1..Len(category_scans), order \in IdOrders :
          CategoryResults(i, order) /\ UNCHANGED ui_frame

SpecCategory == Init /\ [][NextCategory]_vars

\* C32: whenever a category result set is stored while the page of a
\* category is active, it is the result set of the category of that page.
C32_ResultsOfActiveCategory ==
    IsSome(category_results) /\ IsSome(category(nav_page)) =>
       Unwrap(category_results)[1] = Unwrap(category(nav_page))

----------------------------------------------------------------------------
\* Property vocabulary: the packages that can be selected, and the entries
\* of a list as a set.
Selections ==
    {Selected(b, Package(id)) : b \in BackendNames, id \in PackageIds}
Entries(list) == {list[k] : k \in 1..Len(list)}

\* C33: the Installed message empties the installed awaiting-refresh list
\* and leaves the updates awaiting-refresh list and the pending and failed
\* tables as they are; the Updates message empties the updates
\* awaiting-refresh list and leaves the installed one and the tables as
\* they are; and the view treats a package as awaiting refresh exactly
\* while it is in one of the two lists.
C33_EachListItsOwnRefresh ==
    /\ [][\A resp \in ScanResponses :
             /\ \A i \in 1..Len(installed_scans) :
                   Installed(i, resp) =>
                      /\ waiting_installed' = <<>>
                      /\ UNCHANGED <<waiting_updates, pending_operations,
                                     failed_operations>>
             /\ \A i \in 1..Len(updates_scans) :
                   Updates(i, resp) =>
                      /\ waiting_updates' = <<>>
                      /\ UNCHANGED <<waiting_installed, pending_operations,
                                     failed_operations>>]_vars
    /\ [](\A selected \in Selections :
             waiting_refresh(selected) <=>
                PackageOf(selected) \in
                   Entries(waiting_installed) \cup Entries(waiting_updates))

\* An Installed list was delivered while a completed operation awaited its
\* refresh and another was pending: the installed list is empty, the
\* package is still in the updates list and the other is still pending.
C33_Witness ==
    /\ last.type = "Installed"
    /\ waiting_installed = <<>>
    /\ waiting_updates # <<>>
    /\ pending_operations # EmptyTable
    /\ \E selected \in Selections : waiting_refresh(selected)

----------------------------------------------------------------------------
\* C34: every id in the dialog queue is a key of the failed table and is in
\* the queue at most once, so the dialog of the front page is always
\* found, with its operation and its error message.
C34_DialogsResolve ==
    /\ \A k \in 1..Len(dialog_pages) : dialog_pages[k] \in DOMAIN failed_operations
    /\ \A k, l \in 1..Len(dialog_pages) :
          k # l => dialog_pages[k] # dialog_pages[l]
    /\ dialog_pages # <<>> =>
          /\ IsSome(dialog(dialog_pages, failed_operations))
          /\ Unwrap(dialog(dialog_pages, failed_operations)).err
                \in ErrorMessages

\* Two operations failed and a further PendingError for one of them was
\* processed: both dialogs are queued once, in the order of the failures.
C34_Witness ==
    /\ last = Msg("PendingError", FALSE)
    /\ dialog_pages = <<1, 0>>
    /\ DOMAIN failed_operations = {0, 1}

----------------------------------------------------------------------------
\* Update-all when the updates list may hold any number of entries: each
\* backend fails or returns its one package.

UpdateResponses == [BackendNames -> Responses]

NextUpdateAll ==
    \/ Backends /\ UNCHANGED <<task_vars, call_vars, ui_vars>>
    \/ \E op \in OperationInputs :
          Operation(op) /\ UNCHANGED <<task_vars, scan_vars, ui_vars>>
    \/ UpdateAll /\ UNCHANGED <<task_vars, scan_vars, ui_vars>>
    \/ \E id \in EventIds :
          PendingComplete(id) /\ UNCHANGED <<task_vars, scan_vars, ui_vars>>
    \/ \E i \in 1..Len(installed_scans), resp \in UpdateResponses :
          Installed(i, resp) /\ UNCHANGED <<task_vars, scan_vars, ui_vars>>
    \/ \E i \in 1..Len(updates_scans), resp \in UpdateResponses :
          Updates(i, resp) /\ UNCHANGED <<task_vars, scan_vars, ui_vars>>

SpecUpdateAll == Init /\ [][NextUpdateAll]_vars

\* The Update operation of one entry of the updates list.
UpdateOf(entry) ==
    [kind |-> "Update", backend_name |-> entry.backend_name,
     package_id |-> entry.package.id, source_id |-> entry.package.source_id]

\* C35: UpdateAll adds one pending Update operation for each entry of the
\* stored updates list, the k-th entry under the k-th id counted from the id
\* counter, whatever is pending or awaiting refresh already, and changes no
\* other pending operation; with no stored list it adds nothing and leaves
\* the id counter as it was.
C35_UpdateAllEnqueuesEach ==
    [][last'.type = "UpdateAll" =>
        LET list == IF IsSome(updates) THEN Unwrap(updates) ELSE <<>>
            n == Len(list)
            first == pending_operation_id
        IN  /\ pending_operation_id' = first + n
            /\ allocated' = allocated \o [k \in 1..n |-> first + k - 1]
            /\ DOMAIN pending_operations' =
                  DOMAIN pending_operations \cup first..(first + n - 1)
            /\ \A k \in 1..n :
                  pending_operations'[first + k - 1] =
                     [op |-> UpdateOf(list[k]), progress |-> 0]
            /\ \A id \in DOMAIN pending_operations :
                  pending_operations'[id] = pending_operations[id]
            /\ updates = None =>
                  /\ pending_operations' = pending_operations
                  /\ pending_operation_id' = pending_operation_id]_vars

\* UpdateAll has run while the package of the one entry of the updates list
\* had a pending install: the entry got its own Update operation under the
\* next id, beside the install.
C35_Witness ==
    /\ last = Msg("UpdateAll", TRUE)
    /\ Len(Unwrap(updates)) = 1
    /\ DOMAIN pending_operations = {0, 1}
    /\ pending_operations[0].op.kind = "Install"
    /\ pending_operations[1].op = UpdateOf(Unwrap(updates)[1])
    /\ pending_operations[1].op.package_id = pending_operations[0].op.package_id

----------------------------------------------------------------------------
\* Operations that name a backend the Backends message did not carry.
\* Message::Operation takes any backend name (main.rs:1047-1054); the
\* Backends message stores whatever set it carries (main.rs:1004).

LoadedSets == SUBSET BackendNames
MessageInputs ==
    {[kind |-> "Install", backend_name |-> b, package_id |-> "foo",
      source_id |-> "src"] : b \in BackendNames}

NextMissing ==
    \/ \E bs \in LoadedSets :
          Handled(BackendsWith(bs)) /\ UNCHANGED <<call_vars, ui_vars>>
    \/ \E op \in MessageInputs :
          Handled(Operation(op)) /\ UNCHANGED <<scan_vars, ui_vars>>
    \/ Handled(DialogCancel) /\ UNCHANGED <<scan_vars, ui_vars>>
    \/ \E id \in 0..(MaxOps - 1) : Deliver(id) /\ UNCHANGED <<scan_vars, ui_vars>>
    \/ \E id \in 0..(MaxOps - 1) : TaskStart(id) /\ UNCHANGED <<scan_vars, ui_vars>>
    \/ \E id \in 0..(MaxOps - 1) : TaskProgress(id) /\ UNCHANGED <<scan_vars, ui_vars>>
    \/ \E id \in 0..(MaxOps - 1), res \in OperationResults :
          TaskFinish(id, res) /\ UNCHANGED <<scan_vars, ui_vars>>

SpecMissing == Init /\ [][NextMissing]_vars

\* Property vocabulary: the operation an id was handed out for, the events
\* of an id sent so far (those processed, then those in its channel), and
\* how many of them are of one kind.
OperationOf(id) ==
    IF id \in DOMAIN pending_operations THEN pending_operations[id].op
    ELSE failed_operations[id].op
DeliveredOf(id) == IF id \in DOMAIN delivered THEN delivered[id] ELSE <<>>
SentOf(id) ==
    DeliveredOf(id)
    \o (IF id \in DOMAIN tasks
        THEN [k \in 1..Len(tasks[id].channel) |-> tasks[id].channel[k].type]
        ELSE <<>>)
Missing(id) ==
    /\ id \in DOMAIN pending_operations \cup DOMAIN failed_operations
    /\ OperationOf(id).backend_name \notin backends

\* C36: an operation whose backend is not among the loaded backends stays in
\* the pending table until its error is processed and is in the failed table
\* from then on; Backend::operation is never called for it; no progress and
\* no completion is ever sent for it and never more than one PendingError,
\* exactly one once its task has started; and once that error is processed
\* the failed table holds the operation with the "backend not found"
\* message and the id was queued as a dialog exactly once.
C36_MissingBackendFails ==
    /\ [][\A id \in EventIds : Missing(id) => Missing(id)']_vars
    /\ [](\A id \in EventIds :
         Missing(id) =>
             /\ id \notin DOMAIN invocations
             /\ Count(SentOf(id), "PendingProgress") = 0
             /\ Count(SentOf(id), "PendingComplete") = 0
             /\ Count(SentOf(id), "PendingError") <= 1
             /\ id \in DOMAIN tasks /\ tasks[id].pc = "idle" =>
                   Count(SentOf(id), "PendingError") = 1
             /\ id \in DOMAIN tasks => tasks[id].pc # "running"
             /\ id \in DOMAIN pending_operations =>
                   /\ id \in DOMAIN tasks
                   /\ Count(DeliveredOf(id), "PendingError") = 0
                   /\ Count(failures, [id |-> id, err |-> "backend not found"]) = 0
             /\ id \in DOMAIN failed_operations =>
                   /\ failed_operations[id].err = "backend not found"
                   /\ Count(DeliveredOf(id), "PendingError") = 1
                   /\ \A k \in 1..Len(failures) :
                         failures[k].id = id =>
                            failures[k].err = "backend not found"
                   /\ Cardinality({k \in 1..Len(failures) :
                                     failures[k].id = id}) = 1
                   /\ Count(dialog_pages, id) <= 1
                   /\ dismissed = 0 => Count(dialog_pages, id) = 1)

\* Only flatpak was loaded and an install through packagekit was requested:
\* its task sent its one error without calling the backend, the error was
\* processed, and the dialog of the operation is shown.
C36_Witness ==
    /\ backends = {"flatpak"}
    /\ 0 \in DOMAIN failed_operations
    /\ failed_operations[0].op.backend_name = "packagekit"
    /\ failed_operations[0].err = "backend not found"
    /\ dialog_pages = <<0>>
    /\ 0 \notin DOMAIN invocations
    /\ delivered[0] = <<"PendingError">>

----------------------------------------------------------------------------
\* C37: for every tier and every download count that fits in the bits below
\* the tier, the packed weight is the exact difference of the shifted tier
\* and the count, inside the range of the word, and the tier is recovered
\* from the weight alone: two such hits of equal weight have the same tier.
C37_WeightExactAndTierUnique ==
    IsSome(rank_results) =>
       /\ \A i \in 1..2 :
             rank_hits[i].monthly_downloads \in FittingDownloads =>
                LET w == hit_result(rank_hits[i]).weight
                    exact == rank_hits[i].tier * (2 ^ TierShift)
                                - rank_hits[i].monthly_downloads
                IN  /\ w = exact
                    /\ exact >= -(Word \div 2) /\ exact < Word \div 2
                    /\ rank_hits[i].tier * (2 ^ TierShift) < Word \div 2
                    /\ rank_hits[i].tier =
                          (w + 2 ^ TierShift - 1) \div (2 ^ TierShift)
       /\ \A i, j \in 1..2 :
             /\ rank_hits[i].monthly_downloads \in FittingDownloads
             /\ rank_hits[j].monthly_downloads \in FittingDownloads
             /\ hit_result(rank_hits[i]).weight = hit_result(rank_hits[j]).weight
             => rank_hits[i].tier = rank_hits[j].tier

\* The highest tier and the lowest, each with the most downloads that fit:
\* the largest shifted tier and the only negative weights.
C37_Witness ==
    /\ IsSome(rank_results)
    /\ rank_hits[1].tier = 8 /\ rank_hits[2].tier = 0
    /\ rank_hits[1].monthly_downloads = 2 ^ TierShift - 1
    /\ rank_hits[2].monthly_downloads = 2 ^ TierShift - 1
    /\ hit_result(rank_hits[2]).weight < 0

----------------------------------------------------------------------------
\* The enumerations when backends list the system package.

SystemResponseLists ==
    {<<Package("foo")>>, <<Package(SYSTEM_ID)>>,
     <<Package("foo"), Package(SYSTEM_ID)>>}
SystemResponses ==
    [BackendNames ->
        {[ok |-> FALSE, packages |-> <<>>]}
           \cup {[ok |-> TRUE, packages |-> l] : l \in SystemResponseLists}]

NextSystem ==
    \/ Backends /\ UNCHANGED <<task_vars, call_vars, ui_vars>>
    \/ \E i \in 1..Len(installed_scans), resp \in SystemResponses :
          Installed(i, resp) /\ UNCHANGED <<task_vars, scan_vars, ui_vars>>
    \/ \E i \in 1..Len(updates_scans), resp \in SystemResponses :
          Updates(i, resp) /\ UNCHANGED <<task_vars, scan_vars, ui_vars>>

SpecSystem == Init /\ [][NextSystem]_vars

\* Property vocabulary: the comparator ranks the entries at k and l of a
\* list consistently, and the system entries of a list come first.
RanksConsistently(list) ==
    \A k, l \in 1..Len(list) :
       k # l /\ package_cmp(list[k], list[l]) = "Less"
          => package_cmp(list[l], list[k]) = "Greater"
SystemFirst(list) ==
    \A k, l \in 1..Len(list) :
       /\ list[k].package.id = SYSTEM_ID
       /\ list[l].package.id # SYSTEM_ID
       => k < l

\* C38: for every two entries of a delivered installed or updates list,
\* two entries of the system package included, the comparator that ranks
\* the one before the other ranks the other after the one; and in the list
\* every entry of the system package is before every other entry.
C38_ConsistentOrder ==
    \A list \in {installed, updates} :
       IsSome(list) =>
          /\ RanksConsistently(Unwrap(list))
          /\ SystemFirst(Unwrap(list))

----------------------------------------------------------------------------
\* Refresh after completed operations when the backends of an enumeration
\* may fail: all of them fail, or all of them return their package.

RefreshResponses ==
    {resp \in UpdateResponses :
        \A a, b \in BackendNames : resp[a].ok = resp[b].ok}

InstalledDelivered ==
    \E i \in 1..Len(installed_scans), resp \in RefreshResponses :
       Handled(Installed(i, resp)) /\ UNCHANGED <<scan_vars, ui_vars>>
UpdatesDelivered ==
    \E i \in 1..Len(updates_scans), resp \in RefreshResponses :
       Handled(Updates(i, resp)) /\ UNCHANGED <<scan_vars, ui_vars>>

NextRefresh ==
    \/ Handled(Backends) /\ UNCHANGED <<call_vars, ui_vars>>
    \/ InstalledDelivered
    \/ UpdatesDelivered
    \/ \E op \in OperationInputs :
          Handled(Operation(op)) /\ UNCHANGED <<scan_vars, ui_vars>>
    \/ \E id \in 0..(MaxOps - 1) : Deliver(id) /\ UNCHANGED <<scan_vars, ui_vars>>
    \/ \E id \in 0..(MaxOps - 1) : TaskStart(id) /\ UNCHANGED <<scan_vars, ui_vars>>
    \/ \E id \in 0..(MaxOps - 1) : TaskProgress(id) /\ UNCHANGED <<scan_vars, ui_vars>>
    \/ \E id \in 0..(MaxOps - 1), res \in OperationResults :
          TaskFinish(id, res) /\ UNCHANGED <<scan_vars, ui_vars>>

\* The runtime runs every command it was handed to its end: the blocking
\* closure of an enumeration returns and its message is delivered
\* (main.rs:751-786, 791-826).
FairRefresh == WF_vars(InstalledDelivered) /\ WF_vars(UpdatesDelivered)

SpecRefresh == Init /\ [][NextRefresh]_vars /\ FairRefresh

\* C39: the completion of a pending operation starts one installed and one
\* updates enumeration; whenever an awaiting-refresh list holds an entry it
\* is empty again later, whatever the backends answer; and from some point
\* on both lists are empty for ever.
C39_AwaitingEventuallyEmpty ==
    /\ [][/\ delivered' # delivered
          /\ last' = Msg("PendingComplete", TRUE)
          => /\ Len(installed_scans') = Len(installed_scans) + 1
             /\ Len(updates_scans') = Len(updates_scans) + 1
             /\ waiting_installed' # <<>> /\ waiting_updates' # <<>>]_vars
    /\ (waiting_installed # <<>>) ~> (waiting_installed = <<>>)
    /\ (waiting_updates # <<>>) ~> (waiting_updates = <<>>)
    /\ <>[](waiting_installed = <<>> /\ waiting_updates = <<>>)

\* Both operations completed, and the enumeration delivered last found
\* every backend failing: its empty list emptied the installed
\* awaiting-refresh list all the same.
C39_Witness ==
    /\ pending_operation_id = MaxOps
    /\ pending_operations = EmptyTable
    /\ failed_operations = EmptyTable
    /\ last = Msg("Installed", TRUE)
    /\ installed = Some(<<>>)
    /\ waiting_installed = <<>>
    /\ installed_scans = <<>>

====
